---- MODULE Spec2Model ----
(***************************************************************************)
(* A model of the Excel quote editor (ExcelQuoteEditor.tsx): the component *)
(* state, the sheet loader with its style decoder, the edit applier behind *)
(* the instruction translator, the serializer of the download handler and  *)
(* the edit history ledger.                                                *)
(*                                                                         *)
(* JavaScript values are strings: undefined and null are the strings       *)
(* "undefined" and "null", a number n is "n:<n>", a string s is "s:<s>", a *)
(* boolean is "b:true" or "b:false".  A JavaScript object is a function    *)
(* whose domain holds exactly the properties the object has.               *)
(***************************************************************************)
EXTENDS Integers, Sequences, FiniteSets, TLC

\* ------------------------------------------------------------ JS values

undefined == "undefined"
null == "null"
EmptyStr == "s:"

Numbers == {"n:0", "n:7", "n:100", "n:120"}

\* What `!!v` is for the values of the model.
Truthy(v) == v \notin {undefined, null, EmptyStr, "n:0", "b:false"}

\* `typeof v === 'number'`.
IsNumber(v) == v \in Numbers

\* `obj.k`: undefined when the object has no such property.
Get(obj, k) == IF k \in DOMAIN obj THEN obj[k] ELSE undefined

\* `obj.k = v`.
Put(obj, k, v) == [x \in DOMAIN obj \cup {k} |-> IF x = k THEN v ELSE obj[x]]

\* `delete obj.k`.
Del(obj, k) == [x \in DOMAIN obj \ {k} |-> obj[x]]

\* `{}`.
EmptyObj == [x \in {} |-> undefined]

\* ------------------------------------------------------------ addresses
\* A cell address is a sequence of characters; XLSX.utils.encode_cell and
\* XLSX.utils.decode_cell convert between it and a zero-based {r, c}.

Letters == <<"A", "B", "C", "D", "E", "F", "G", "H", "I", "J", "K", "L", "M",
             "N", "O", "P", "Q", "R", "S", "T", "U", "V", "W", "X", "Y", "Z">>
Digits == <<"0", "1", "2", "3", "4", "5", "6", "7", "8", "9">>

IsUpper(ch) == \E i \in 1..Len(Letters) : Letters[i] = ch
IsDigit(ch) == \E i \in 1..Len(Digits) : Digits[i] = ch
UpperIndex(ch) == CHOOSE i \in 1..Len(Letters) : Letters[i] = ch
DigitValue(ch) == (CHOOSE i \in 1..Len(Digits) : Digits[i] = ch) - 1

RECURSIVE DecodeFrom(_, _, _, _)
DecodeFrom(cstr, i, R, C) ==
    IF i > Len(cstr) THEN [r |-> R - 1, c |-> C - 1]
    ELSE IF IsDigit(cstr[i]) THEN DecodeFrom(cstr, i + 1, 10 * R + DigitValue(cstr[i]), C)
    ELSE IF IsUpper(cstr[i]) THEN DecodeFrom(cstr, i + 1, R, 26 * C + UpperIndex(cstr[i]))
    ELSE DecodeFrom(cstr, i + 1, R, C)

\* decode_cell: digits accumulate the row, capitals the column, every other
\* character is skipped; a missing part decodes to -1.
decode_cell(cstr) == DecodeFrom(cstr, 1, 0, 0)

RECURSIVE encode_col(_)
encode_col(col) ==
    LET n == col + 1
        rest == (n - 1) \div 26
    IN  (IF rest = 0 THEN <<>> ELSE encode_col(rest - 1)) \o <<Letters[((n - 1) % 26) + 1]>>

RECURSIVE DecimalOf(_)
DecimalOf(n) ==
    IF n < 10 THEN <<Digits[n + 1]>> ELSE DecimalOf(n \div 10) \o <<Digits[(n % 10) + 1]>>

encode_row(row) == DecimalOf(row + 1)

encode_cell(cell) == encode_col(cell.c) \o encode_row(cell.r)

\* ------------------------------------------------------- style decoder
\* The leaves of a raw style record are boxed so that a string keeps its
\* characters: Str(<<"F","F">>), Num(3), Bool(TRUE), Undef.

Str(chars) == [k |-> "str", chars |-> chars]
Num(n) == [k |-> "num", n |-> n]
Bool(b) == [k |-> "bool", b |-> b]
Undef == [k |-> "undefined"]

\* `!!x` of a boxed leaf.
TruthyB(x) ==
    CASE x.k = "str" -> x.chars # <<>>
      [] x.k = "num" -> x.n # 0
      [] x.k = "bool" -> x.b
      [] OTHER -> FALSE

\* `obj.k` of a boxed leaf: Undef when the property is absent.
GetB(obj, k) == IF k \in DOMAIN obj THEN obj[k] ELSE Undef

\* `obj.k` of a sub-record: the empty object when it is absent, so that a
\* read below it yields undefined.
Sub(obj, k) == IF k \in DOMAIN obj THEN obj[k] ELSE EmptyObj

Hex6(a, b, c) == Str(<<"#", a, a, b, b, c, c>>)

BaseColors ==
    <<Hex6("0", "0", "0"), Hex6("F", "F", "F"), Hex6("F", "0", "0"), Hex6("0", "F", "0"),
      Hex6("0", "0", "F"), Hex6("F", "F", "0"), Hex6("F", "0", "F"), Hex6("0", "F", "F")>>

\* The palette of the fill colours (16 entries) and of the font colour (8).
fillIndexedColors == BaseColors \o BaseColors
fontIndexedColors == BaseColors

\* `#${rgb.substring(2)}`.
StripAlpha(chars) == Str(<<"#">> \o SubSeq(chars, 3, Len(chars)))

\* `table[i]` of a JavaScript array: undefined outside 0..length-1.
ArrayAt(table, i) == IF i >= 0 /\ i < Len(table) THEN table[i + 1] ELSE Undef

\* One colour record resolved as lines 183-194 and 208-217 do: the result
\* is [set |-> whether the style field is assigned, val |-> the value,
\* threw |-> whether `.substring` was called on something that has none].
ResolveColor(color, table) ==
    LET rgb == GetB(color, "rgb")
        idx == GetB(color, "indexed")
    IN  IF TruthyB(rgb) THEN
            IF rgb.k = "str"
            THEN [set |-> TRUE, val |-> StripAlpha(rgb.chars), threw |-> FALSE]
            ELSE [set |-> FALSE, val |-> Undef, threw |-> TRUE]
        ELSE IF idx.k # "undefined" THEN
            IF idx.k = "num" /\ idx.n < Len(table)
            THEN [set |-> TRUE, val |-> ArrayAt(table, idx.n), threw |-> FALSE]
            ELSE [set |-> FALSE, val |-> Undef, threw |-> FALSE]
        ELSE [set |-> FALSE, val |-> Undef, threw |-> FALSE]

\* The fill background colour, used only when it has an rgb and no
\* background was found before it (lines 196-201).
ResolveBgColor(bgColor, already) ==
    LET rgb == GetB(bgColor, "rgb")
    IN  IF TruthyB(rgb) /\ ~already THEN
            IF rgb.k = "str"
            THEN [set |-> TRUE, val |-> StripAlpha(rgb.chars), threw |-> FALSE]
            ELSE [set |-> FALSE, val |-> Undef, threw |-> TRUE]
        ELSE [set |-> FALSE, val |-> Undef, threw |-> FALSE]

\* The border declarations of the edges that carry a style, in the order
\* top, bottom, left, right (lines 246-258).
BorderList(border) ==
    LET Has(e) == e \in DOMAIN border /\ TruthyB(GetB(border[e], "style"))
        One(e) == IF Has(e) THEN <<e>> ELSE <<>>
    IN  One("top") \o One("bottom") \o One("left") \o One("right")

NoColor == [set |-> FALSE, val |-> Undef, threw |-> FALSE]

\* The three colour lookups of a style record.
FillFg(style) ==
    IF "fgColor" \in DOMAIN Sub(style, "fill")
    THEN ResolveColor(style.fill.fgColor, fillIndexedColors) ELSE NoColor

FillBg(style) ==
    IF "bgColor" \in DOMAIN Sub(style, "fill") /\ ~FillFg(style).threw
    THEN ResolveBgColor(style.fill.bgColor, FillFg(style).set /\ TruthyB(FillFg(style).val))
    ELSE NoColor

FontColor(style) ==
    IF "color" \in DOMAIN Sub(style, "font")
    THEN ResolveColor(style.font.color, fontIndexedColors) ELSE NoColor

\* The CellStyle fields the decoder assigns for a style record.
StyleFields(style) ==
    {k \in {"backgroundColor", "color", "fontWeight", "fontStyle", "textDecoration",
            "fontSize", "fontFamily", "textAlign", "border"} :
        CASE k = "backgroundColor" -> FillFg(style).set \/ FillBg(style).set
          [] k = "color" -> FontColor(style).set
          [] k = "fontWeight" -> TruthyB(GetB(Sub(style, "font"), "bold"))
          [] k = "fontStyle" -> TruthyB(GetB(Sub(style, "font"), "italic"))
          [] k = "textDecoration" -> TruthyB(GetB(Sub(style, "font"), "underline"))
          [] k = "fontSize" -> TruthyB(GetB(Sub(style, "font"), "sz"))
          [] k = "fontFamily" -> TruthyB(GetB(Sub(style, "font"), "name"))
          [] k = "textAlign" -> TruthyB(GetB(Sub(style, "alignment"), "horizontal"))
          [] k = "border" -> BorderList(Sub(style, "border")) # <<>>}

\* The value the decoder assigns to field k.
StyleValue(style, k) ==
    CASE k = "backgroundColor" -> IF FillBg(style).set THEN FillBg(style).val
                                  ELSE FillFg(style).val
      [] k = "color" -> FontColor(style).val
      [] k = "fontWeight" -> Str(<<"bold">>)
      [] k = "fontStyle" -> Str(<<"italic">>)
      [] k = "textDecoration" -> Str(<<"underline">>)
      [] k = "fontSize" -> [k |-> "px", of |-> style.font.sz]
      [] k = "fontFamily" -> style.font.name
      [] k = "textAlign" -> style.alignment.horizontal
      [] k = "border" -> [k |-> "solid1px", edges |-> BorderList(Sub(style, "border"))]

\* The style decoder of loadSheetData: the CellStyle of a raw style record,
\* or threw = TRUE when decoding raises.
DecodeStyle(style) ==
    [threw |-> FillFg(style).threw \/ FillBg(style).threw \/ FontColor(style).threw,
     cellStyle |-> [name \in StyleFields(style) |-> StyleValue(style, name)]]

\* -------------------------------------------------------- sheet loader
\* A worksheet is [cells |-> address -> persisted cell] plus the optional
\* properties ref ('!ref', a range as text) and merges ('!merges').  A
\* persisted cell is an object with any of v, f, t, s, w, z.

IndexOf(str, ch) ==
    IF \E i \in 1..Len(str) : str[i] = ch
    THEN CHOOSE i \in 1..Len(str) : str[i] = ch /\ \A j \in 1..(i - 1) : str[j] # ch
    ELSE 0

\* XLSX.utils.decode_range: the two corners around the colon, or one cell
\* taken as both corners.
decode_range(range) ==
    LET idx == IndexOf(range, ":")
    IN  IF idx = 0 THEN [s |-> decode_cell(range), e |-> decode_cell(range)]
        ELSE [s |-> decode_cell(SubSeq(range, 1, idx - 1)),
              e |-> decode_cell(SubSeq(range, idx + 1, Len(range)))]

DefaultRef == <<"A", "1", ":", "A", "1">>

\* `worksheet['!ref'] || 'A1:A1'`, decoded.
SheetRange(worksheet) ==
    decode_range(IF "ref" \in DOMAIN worksheet /\ worksheet.ref # <<>>
                 THEN worksheet.ref ELSE DefaultRef)

\* The CellData the loader makes of one address (lines 167-174).
LoadCellData(worksheet, cellAddress) ==
    IF cellAddress \in DOMAIN worksheet.cells
    THEN LET cell == worksheet.cells[cellAddress]
         IN  [value |-> IF Truthy(Get(cell, "v")) THEN cell.v ELSE EmptyStr,
              formula |-> Get(cell, "f"),
              type |-> Get(cell, "t")]
    ELSE [value |-> EmptyStr]

\* The decoding of the style record of one address (lines 176-263).
LoadCellStyle(worksheet, cellAddress) ==
    IF cellAddress \in DOMAIN worksheet.cells /\ "s" \in DOMAIN worksheet.cells[cellAddress]
    THEN DecodeStyle(worksheet.cells[cellAddress].s)
    ELSE [threw |-> FALSE, cellStyle |-> EmptyObj]

\* loadSheetData for a worksheet that exists: the merges, the grid and the
\* style map it sets, and whether the walk raised before setting the last
\* two.
LoadSheet(worksheet) ==
    LET range == SheetRange(worksheet)
        nRows == IF range.e.r >= range.s.r THEN range.e.r - range.s.r + 1 ELSE 0
        nCols == IF range.e.c >= range.s.c THEN range.e.c - range.s.c + 1 ELSE 0
        At(i, j) == encode_cell([r |-> range.s.r + i - 1, c |-> range.s.c + j - 1])
        visited == {At(i, j) : i \in 1..nRows, j \in 1..nCols}
        styled == {a \in visited : DOMAIN LoadCellStyle(worksheet, a).cellStyle # {}}
    IN  [mergeInfo |-> IF "merges" \in DOMAIN worksheet THEN worksheet.merges ELSE <<>>,
         threw |-> \E a \in visited : LoadCellStyle(worksheet, a).threw,
         data |-> [i \in 1..nRows |-> [j \in 1..nCols |-> LoadCellData(worksheet, At(i, j))]],
         styles |-> [a \in styled |-> LoadCellStyle(worksheet, a).cellStyle]]

\* The address at which the walk of the loader reads the cell it puts at
\* grid indices (rowIndex, colIndex), both counted from 0 (lines 161-165).
LoadedFrom(range, rowIndex, colIndex) ==
    encode_cell([r |-> range.s.r + rowIndex, c |-> range.s.c + colIndex])

\* ----------------------------------------------------- translator snapshot
\* The object the snapshot makes of one grid cell (lines 339-344).
SnapshotEntry(cell, rowIndex, colIndex) ==
    [address |-> encode_cell([r |-> rowIndex, c |-> colIndex]),
     value |-> Get(cell, "value"),
     formula |-> Get(cell, "formula"),
     type |-> Get(cell, "type")]

RECURSIVE FlatFrom(_, _)
FlatFrom(rows, i) == IF i > Len(rows) THEN <<>> ELSE rows[i] \o FlatFrom(rows, i + 1)

SnapshotKept(entry) == entry.value # EmptyStr \/ Truthy(entry.formula)

\* currentData: the grid mapped to snapshot objects, flattened row by row,
\* without the cells that have neither value nor formula (lines 338-345).
currentData(grid) ==
    SelectSeq(FlatFrom([i \in 1..Len(grid) |->
                           [j \in 1..Len(grid[i]) |->
                               SnapshotEntry(grid[i][j], i - 1, j - 1)]], 1),
              SnapshotKept)

\* --------------------------------------------------------- edit applier
\* An update is an object with any of address, value, formula, as
\* JSON.parse yields it: a property that is present is never undefined.

\* How one update fares against the grid (lines 427-429 and the catch of
\* 467): "applied", "skipped" when the bounds test fails, "threw" when
\* decoding or the bounds test raises.
UpdateFate(grid, update) ==
    IF "address" \notin DOMAIN update THEN "threw"
    ELSE LET cellRef == decode_cell(update.address)
         IN  IF ~(cellRef.r < Len(grid)) THEN "skipped"
             ELSE IF cellRef.r < 0 THEN "threw"
             ELSE IF ~(cellRef.c < Len(grid[cellRef.r + 1])) THEN "skipped"
             ELSE IF cellRef.c < 0 THEN "threw"
             ELSE "applied"

\* NextCell, were a null value to leave the cell's value alone.
NextCellNonNull(currentCell, update) ==
    LET withValue == IF "value" \in DOMAIN update /\ update.value # null
                     THEN Put(currentCell, "value", update.value) ELSE currentCell
    IN  IF "formula" \in DOMAIN update
        THEN Put(withValue, "formula", update.formula) ELSE withValue

\* The cell that replaces the target in the new grid (lines 433-441).
NextCell(currentCell, update) ==
    LET withValue == IF "value" \in DOMAIN update
                     THEN Put(currentCell, "value", update.value) ELSE currentCell
    IN  IF "formula" \in DOMAIN update
        THEN Put(withValue, "formula", update.formula) ELSE withValue

\* ChangeRecord, were afterValue read from the update alone.
ChangeRecordUpdateOnly(currentCell, update) ==
    [cellRange |-> update.address,
     beforeValue |-> Get(currentCell, "value"),
     afterValue |-> Get(update, "value")]

\* The record pushed on the change list (lines 445-449).
ChangeRecord(currentCell, update) ==
    [cellRange |-> update.address,
     beforeValue |-> Get(currentCell, "value"),
     afterValue |-> IF "value" \in DOMAIN update THEN update.value
                    ELSE Get(NextCell(currentCell, update), "value")]

\* MirrorCell, were the entry built anew instead of patched.
MirrorCellFresh(cells, currentCell, update) ==
    LET cell1 == IF "value" \in DOMAIN update THEN Put(EmptyObj, "v", update.value)
                 ELSE EmptyObj
        targetFormula == IF "formula" \in DOMAIN update
                         THEN update.formula ELSE Get(currentCell, "formula")
    IN  IF Truthy(targetFormula) THEN Put(cell1, "f", targetFormula) ELSE cell1

\* The persisted entry written back at the update's address (lines 453-464).
MirrorCell(cells, currentCell, update) ==
    LET cell0 == IF update.address \in DOMAIN cells THEN cells[update.address] ELSE EmptyObj
        cell1 == IF "value" \in DOMAIN update THEN Put(cell0, "v", update.value) ELSE cell0
        targetFormula == IF "formula" \in DOMAIN update
                         THEN update.formula ELSE Get(currentCell, "formula")
        cell2 == IF Truthy(targetFormula) THEN Put(cell1, "f", targetFormula) ELSE cell1
        nextType == Get(NextCell(currentCell, update), "type")
    IN  IF Truthy(nextType) THEN Put(cell2, "t", nextType) ELSE cell2

\* ApplyUpdate, were the update written to every cell of the target's row.
ApplyUpdateRow(acc, update, hasSheet) ==
    IF UpdateFate(acc.grid, update) # "applied" THEN acc
    ELSE LET cellRef == decode_cell(update.address)
             currentCell == acc.grid[cellRef.r + 1][cellRef.c + 1]
         IN  [grid |-> [acc.grid EXCEPT ![cellRef.r + 1] =
                                            [c \in DOMAIN @ |-> NextCell(@[c], update)]],
              changes |-> Append(acc.changes, ChangeRecord(currentCell, update)),
              cells |-> IF hasSheet
                        THEN Put(acc.cells, update.address,
                                 MirrorCell(acc.cells, currentCell, update))
                        ELSE acc.cells]

\* One pass of the forEach body over acc = [grid, changes, cells]; hasSheet
\* says whether workbook.Sheets[activeSheet] exists.
ApplyUpdate(acc, update, hasSheet) ==
    IF UpdateFate(acc.grid, update) # "applied" THEN acc
    ELSE LET cellRef == decode_cell(update.address)
             currentCell == acc.grid[cellRef.r + 1][cellRef.c + 1]
         IN  [grid |-> [acc.grid EXCEPT ![cellRef.r + 1][cellRef.c + 1] =
                                            NextCell(currentCell, update)],
              changes |-> Append(acc.changes, ChangeRecord(currentCell, update)),
              cells |-> IF hasSheet
                        THEN Put(acc.cells, update.address,
                                 MirrorCell(acc.cells, currentCell, update))
                        ELSE acc.cells]

RECURSIVE ApplyFrom(_, _, _, _)

\* ApplyFrom, were the first update that is dropped to end the batch.
ApplyFromAbort(acc, updates, i, hasSheet) ==
    IF i > Len(updates) THEN acc
    ELSE IF UpdateFate(acc.grid, updates[i]) # "applied" THEN acc
    ELSE ApplyFrom(ApplyUpdate(acc, updates[i], hasSheet), updates, i + 1, hasSheet)

ApplyFrom(acc, updates, i, hasSheet) ==
    IF i > Len(updates) THEN acc
    ELSE ApplyFrom(ApplyUpdate(acc, updates[i], hasSheet), updates, i + 1, hasSheet)

\* ApplyUpdates, were the worksheet's entries rebuilt from nothing.
ApplyUpdatesFresh(grid, cells, updates, hasSheet) ==
    ApplyFrom([grid |-> grid, changes |-> <<>>, cells |-> EmptyObj], updates, 1, hasSheet)

\* The whole batch, in list order, from the grid of the closure and the
\* cells of the closure's worksheet.
ApplyUpdates(grid, cells, updates, hasSheet) ==
    ApplyFrom([grid |-> grid, changes |-> <<>>, cells |-> cells], updates, 1, hasSheet)

\* ----------------------------------------------------------- serializer

TypeN == "s:n"
TypeS == "s:s"
TypeB == "s:b"
TypeZ == "s:z"

\* `cell.value === '' || cell.value === null || cell.value === undefined`.
isEmptyValue(cell) == Get(cell, "value") \in {EmptyStr, null, undefined}

\* `!!cell.formula`.
hasFormula(cell) == Truthy(Get(cell, "formula"))

\* ReconcileCell, were the empty branch to delete the entry whatever it holds.
ReconcileCellDropAll(cells, cell, cellAddress) ==
    LET present == cellAddress \in DOMAIN cells
    IN  IF isEmptyValue(cell) /\ ~hasFormula(cell) THEN
            IF ~present THEN cells ELSE Del(cells, cellAddress)
        ELSE LET n0 == IF present THEN cells[cellAddress] ELSE EmptyObj
                 n1 == IF Truthy(Get(cell, "type")) THEN Put(n0, "t", cell.type)
                       ELSE IF ~Truthy(Get(n0, "t"))
                            THEN Put(n0, "t", IF IsNumber(Get(cell, "value")) THEN "s:n" ELSE "s:s")
                            ELSE n0
                 n2 == IF hasFormula(cell) THEN Put(n1, "f", cell.formula)
                       ELSE IF Truthy(Get(n1, "f")) THEN Del(n1, "f")
                       ELSE n1
                 n3 == IF ~isEmptyValue(cell) THEN Put(n2, "v", cell.value) ELSE n2
             IN  Put(cells, cellAddress, n3)

\* ReconcileCell, were the type of a cell without one always inferred.
ReconcileCellInferType(cells, cell, cellAddress) ==
    LET present == cellAddress \in DOMAIN cells
    IN  IF isEmptyValue(cell) /\ ~hasFormula(cell) THEN
            IF ~present THEN cells
            ELSE LET cloned == Del(Del(Del(cells[cellAddress], "v"), "w"), "z")
                 IN  IF ~Truthy(Get(cloned, "f"))
                     THEN Del(cells, cellAddress)
                     ELSE Put(cells, cellAddress, cloned)
        ELSE LET n0 == IF present THEN cells[cellAddress] ELSE EmptyObj
                 n1 == IF Truthy(Get(cell, "type")) THEN Put(n0, "t", cell.type)
                       ELSE Put(n0, "t", IF IsNumber(Get(cell, "value")) THEN "s:n" ELSE "s:s")
                 n2 == IF hasFormula(cell) THEN Put(n1, "f", cell.formula)
                       ELSE IF Truthy(Get(n1, "f")) THEN Del(n1, "f")
                       ELSE n1
                 n3 == IF ~isEmptyValue(cell) THEN Put(n2, "v", cell.value) ELSE n2
             IN  Put(cells, cellAddress, n3)

\* ReconcileCell, were the entry kept for an empty grid cell stored without
\* the formula it was kept for.
ReconcileCellShedFormula(cells, cell, cellAddress) ==
    LET present == cellAddress \in DOMAIN cells
    IN  IF isEmptyValue(cell) /\ ~hasFormula(cell) THEN
            IF ~present THEN cells
            ELSE LET cloned == Del(Del(Del(cells[cellAddress], "v"), "w"), "z")
                 IN  IF ~Truthy(Get(cloned, "f"))
                     THEN Del(cells, cellAddress)
                     ELSE Put(cells, cellAddress, Del(cloned, "f"))
        ELSE LET n0 == IF present THEN cells[cellAddress] ELSE EmptyObj
                 n1 == IF Truthy(Get(cell, "type")) THEN Put(n0, "t", cell.type)
                       ELSE IF ~Truthy(Get(n0, "t"))
                            THEN Put(n0, "t", IF IsNumber(Get(cell, "value")) THEN TypeN ELSE TypeS)
                            ELSE n0
                 n2 == IF hasFormula(cell) THEN Put(n1, "f", cell.formula)
                       ELSE IF Truthy(Get(n1, "f")) THEN Del(n1, "f")
                       ELSE n1
                 n3 == IF ~isEmptyValue(cell) THEN Put(n2, "v", cell.value) ELSE n2
             IN  Put(cells, cellAddress, n3)

\* The worksheet's cells after one grid cell is reconciled at cellAddress
\* (lines 572-613).
ReconcileCell(cells, cell, cellAddress) ==
    LET present == cellAddress \in DOMAIN cells
    IN  IF isEmptyValue(cell) /\ ~hasFormula(cell) THEN
            IF ~present THEN cells
            ELSE LET cloned == Del(Del(Del(cells[cellAddress], "v"), "w"), "z")
                 IN  IF ~Truthy(Get(cloned, "f"))
                     THEN Del(cells, cellAddress)
                     ELSE Put(cells, cellAddress, cloned)
        ELSE LET n0 == IF present THEN cells[cellAddress] ELSE EmptyObj
                 n1 == IF Truthy(Get(cell, "type")) THEN Put(n0, "t", cell.type)
                       ELSE IF ~Truthy(Get(n0, "t"))
                            THEN Put(n0, "t", IF IsNumber(Get(cell, "value")) THEN TypeN ELSE TypeS)
                            ELSE n0
                 n2 == IF hasFormula(cell) THEN Put(n1, "f", cell.formula)
                       ELSE IF Truthy(Get(n1, "f")) THEN Del(n1, "f")
                       ELSE n1
                 n3 == IF ~isEmptyValue(cell) THEN Put(n2, "v", cell.value) ELSE n2
             IN  Put(cells, cellAddress, n3)

RECURSIVE ReconcileRow(_, _, _, _)
ReconcileRow(cells, row, rowIndex, colIndex) ==
    IF colIndex >= Len(row) THEN cells
    ELSE ReconcileRow(ReconcileCell(cells, row[colIndex + 1],
                                    encode_cell([r |-> rowIndex, c |-> colIndex])),
                      row, rowIndex, colIndex + 1)

RECURSIVE ReconcileFrom(_, _, _)
ReconcileFrom(cells, grid, rowIndex) ==
    IF rowIndex >= Len(grid) THEN cells
    ELSE ReconcileFrom(ReconcileRow(cells, grid[rowIndex + 1], rowIndex, 0), grid, rowIndex + 1)

\* The reconciliation of handleDownload: every grid cell, row-major, written
\* at the address of its grid indices.
Reconcile(cells, grid) == ReconcileFrom(cells, grid, 0)

\* ---------------------------------------------------------------- files
\* What XLSX.read yields for the files of the model.

Ch(a, b) == <<a, b>>

BoldYellow ==
    [fill |-> [fgColor |-> [rgb |-> Str(<<"F", "F", "F", "F", "F", "F", "0", "0">>)]],
     font |-> [bold |-> Bool(TRUE)]]

Bordered == [border |-> [top |-> [style |-> Str(<<"thin">>)]]]

QuoteS1 ==
    [ref |-> <<"A", "1", ":", "B", "2">>,
     cells |-> (Ch("A", "1") :> [t |-> TypeS, v |-> "s:Item"]) @@
               (Ch("B", "1") :> [t |-> TypeN, v |-> "n:0"]) @@
               (Ch("A", "2") :> [t |-> TypeN, v |-> "n:7", f |-> "s:B1+7"]) @@
               (Ch("B", "2") :> [t |-> TypeN, v |-> "n:100", w |-> "s:100",
                                 z |-> "s:General", s |-> BoldYellow])]

QuoteS2 ==
    [ref |-> <<"B", "2", ":", "C", "2">>,
     merges |-> <<[s |-> [r |-> 1, c |-> 1], e |-> [r |-> 1, c |-> 2]]>>,
     cells |-> (Ch("B", "2") :> [t |-> TypeS, v |-> "s:Note"]) @@
               (Ch("C", "2") :> [t |-> TypeZ, s |-> Bordered])]

PlanP1 == [cells |-> (Ch("A", "1") :> [t |-> TypeB, v |-> "b:false"])]

QuoteBook == [SheetNames |-> <<"S1", "S2">>, Sheets |-> [S1 |-> QuoteS1, S2 |-> QuoteS2]]
PlanBook == [SheetNames |-> <<"P1">>, Sheets |-> [P1 |-> PlanP1]]

\* A file whose second sheet part cannot be parsed: XLSX.read lists the
\* sheet's name and leaves it out of Sheets.
TornBook == [SheetNames |-> <<"S1", "T2">>, Sheets |-> [S1 |-> QuoteS1]]

FileNames == {"quote.xlsx", "plan.xls", "torn.xlsx", "notes.txt"}

\* `file.name.endsWith('.xlsx') || file.name.endsWith('.xls')`.
HasSheetExtension(file) == file \in {"quote.xlsx", "plan.xls", "torn.xlsx"}

\* XLSX.read: a workbook, or a failure to parse.
XLSXread(file) ==
    CASE file = "quote.xlsx" -> [ok |-> TRUE, wb |-> QuoteBook]
      [] file = "plan.xls" -> [ok |-> TRUE, wb |-> PlanBook]
      [] file = "torn.xlsx" -> [ok |-> TRUE, wb |-> TornBook]
      [] OTHER -> [ok |-> FALSE]

\* ------------------------------------------------------------ the state

VARIABLES
    uploadedFile,         \* the chosen file's name, or null
    heap,                 \* the workbook objects XLSX.read has made, by reference
    workbook,             \* a reference into heap, or 0 for null
    sheets,               \* the sheet names shown as tabs
    activeSheet,
    sheetData,            \* the Grid: rows of CellData
    cellStyles,           \* address -> CellStyle
    merges,
    editHistory,          \* the ledger, newest first
    currentInstruction,
    isLoading,
    isProcessing,
    deepseekApiKey,
    apiConnectionStatus,
    toast,                \* the notice the step taken last raised, if any
    reads,                \* the files whose bytes are being awaited
    batches,              \* the translator calls being awaited, each with its closure
    now,                  \* Date.now()
    started,              \* reads begun, batches sent and answered, undos so far, and
                          \* streak: the edits applied since the ledger was last popped
                          \* or cleared
    limit,                \* how many of each the run allows, and which build runs:
                          \* demo for the simulation of part_000
    last                  \* what the step taken last did, for the properties

vars == <<uploadedFile, heap, workbook, sheets, activeSheet, sheetData, cellStyles,
          merges, editHistory, currentInstruction, isLoading, isProcessing,
          deepseekApiKey, apiConnectionStatus, toast, reads, batches, now, started, limit, last>>

MaxReads == 2
MaxBatches == 2
MaxUndos == 1

NoToast == [level |-> "none", text |-> "none"]
Success(text) == [level |-> "success", text |-> text]
\* Failure, were the catch to raise no notice.
FailureUnnoticed(text) == [level |-> "none", text |-> "none"]
Failure(text) == [level |-> "error", text |-> text]

Idle == [op |-> "none"]

\* The state of a freshly mounted component (the useState initial values).
Mounted ==
    /\ uploadedFile = null
    /\ heap = <<>>
    /\ workbook = 0
    /\ sheets = <<>>
    /\ activeSheet = ""
    /\ sheetData = <<>>
    /\ cellStyles = EmptyObj
    /\ merges = <<>>
    /\ editHistory = <<>>
    /\ currentInstruction = ""
    /\ isLoading = FALSE
    /\ isProcessing = FALSE
    /\ deepseekApiKey = ""
    /\ apiConnectionStatus = "none"
    /\ toast = NoToast
    /\ reads = <<>>
    /\ batches = <<>>
    /\ now = 1
    /\ started = [reads |-> 0, batches |-> 0, answers |-> 0, undos |-> 0, streak |-> 0]
    /\ last = Idle

Init ==
    /\ Mounted
    /\ limit = [reads |-> MaxReads, batches |-> MaxBatches + 1, answers |-> MaxBatches,
                undos |-> MaxUndos, demo |-> FALSE]

Remove(seq, i) == SubSeq(seq, 1, i - 1) \o SubSeq(seq, i + 1, Len(seq))

\* A workbook object nothing refers to any more: the garbage collector's.
Freed == [SheetNames |-> <<>>, Sheets |-> EmptyObj]

\* The heap with every workbook freed that neither the component state
\* (ref) nor the closure of a pending translator call refers to.
Collect(h, ref, pending) ==
    [j \in 1..Len(h) |->
        IF j = ref \/ \E k \in 1..Len(pending) : pending[k].workbook = j
        THEN h[j] ELSE Freed]

\* ------------------------------------------------------------ file load

\* The start of readFileWithStyles, up to `await file.arrayBuffer()`.
StartRead(file) ==
    /\ started.reads < limit.reads
    /\ uploadedFile' = file
    /\ isLoading' = TRUE
    /\ reads' = Append(reads, file)
    /\ started' = [started EXCEPT !.reads = @ + 1]

\* handleFileSelect: the file input, shown while no file is chosen.
handleFileSelect(file) ==
    /\ uploadedFile = null
    /\ StartRead(file)
    /\ last' = Idle
    /\ UNCHANGED <<heap, workbook, sheets, activeSheet, sheetData, cellStyles, merges,
                   editHistory, currentInstruction, isProcessing, deepseekApiKey,
                   apiConnectionStatus, batches, now, limit>>
    /\ toast' = NoToast

\* handleDrop: the drop zone, shown while no file is chosen.
handleDrop(file) ==
    /\ uploadedFile = null
    /\ IF HasSheetExtension(file)
       THEN /\ StartRead(file)
            /\ toast' = NoToast
       ELSE /\ toast' = Failure("unsupported file type")
            /\ UNCHANGED <<uploadedFile, isLoading, reads, started>>
    /\ last' = Idle
    /\ UNCHANGED <<heap, workbook, sheets, activeSheet, sheetData, cellStyles, merges,
                   editHistory, currentInstruction, isProcessing, deepseekApiKey,
                   apiConnectionStatus, batches, now, limit>>

\* The rest of readFileWithStyles once the bytes of read i have arrived:
\* XLSX.read, the setters, loadSheetData of the first sheet.
readFileWithStyles(i) ==
    /\ i \in 1..Len(reads)
    /\ LET parsed == XLSXread(reads[i])
       IN  IF ~parsed.ok THEN
               /\ toast' = Failure("load failed")
               /\ last' = [op |-> "load", ok |-> FALSE, inFlight |-> Len(batches)]
               /\ UNCHANGED <<heap, workbook, sheets, activeSheet, sheetData, cellStyles, merges>>
           ELSE
               LET wb == parsed.wb
                   first == wb.SheetNames[1]
                   loaded == LoadSheet(wb.Sheets[first])
               IN  /\ heap' = Collect(Append(heap, wb), Len(heap) + 1, batches)
                   /\ workbook' = Len(heap) + 1
                   /\ sheets' = wb.SheetNames
                   /\ activeSheet' = first
                   /\ merges' = loaded.mergeInfo
                   /\ last' = [op |-> "load", ok |-> ~loaded.threw, inFlight |-> Len(batches)]
                   /\ IF loaded.threw
                      THEN /\ toast' = Failure("load failed")
                           /\ UNCHANGED <<sheetData, cellStyles>>
                      ELSE /\ toast' = Success("file loaded")
                           /\ sheetData' = loaded.data
                           /\ cellStyles' = loaded.styles
    /\ isLoading' = FALSE
    /\ reads' = Remove(reads, i)
    /\ UNCHANGED <<uploadedFile, editHistory, currentInstruction, isProcessing,
                   deepseekApiKey, apiConnectionStatus, batches, now, started, limit>>

\* handleSheetChange, were a sheet that is missing to blank the view.
handleSheetChangeBlank(sheetName) ==
    /\ Len(sheets) > 1
    /\ \E k \in 1..Len(sheets) : sheets[k] = sheetName
    /\ sheetName # activeSheet
    /\ IF workbook = 0 THEN UNCHANGED <<activeSheet, merges, sheetData, cellStyles>>
       ELSE /\ activeSheet' = sheetName
            /\ IF sheetName \notin DOMAIN heap[workbook].Sheets
               THEN /\ sheetData' = <<>>
                    /\ cellStyles' = EmptyObj
                    /\ merges' = <<>>
               ELSE LET loaded == LoadSheet(heap[workbook].Sheets[sheetName])
                    IN  /\ merges' = loaded.mergeInfo
                        /\ IF loaded.threw THEN UNCHANGED <<sheetData, cellStyles>>
                           ELSE /\ sheetData' = loaded.data
                                /\ cellStyles' = loaded.styles
    /\ last' = [op |-> "sheet", name |-> sheetName, sheetData |-> sheetData,
                cellStyles |-> cellStyles, merges |-> merges]
    /\ UNCHANGED <<uploadedFile, heap, workbook, sheets, editHistory, currentInstruction,
                   isLoading, isProcessing, deepseekApiKey, apiConnectionStatus, reads,
                   batches, now, started, limit>>
    /\ toast' = NoToast

\* handleSheetChange: a tab other than the active one, shown when the
\* workbook has more than one sheet.  An error that loadSheetData raises
\* escapes the handler after setMerges, with no notice.
handleSheetChange(sheetName) ==
    /\ Len(sheets) > 1
    /\ \E k \in 1..Len(sheets) : sheets[k] = sheetName
    /\ sheetName # activeSheet
    /\ IF workbook = 0 THEN UNCHANGED <<activeSheet, merges, sheetData, cellStyles>>
       ELSE /\ activeSheet' = sheetName
            /\ IF sheetName \notin DOMAIN heap[workbook].Sheets
               THEN UNCHANGED <<merges, sheetData, cellStyles>>
               ELSE LET loaded == LoadSheet(heap[workbook].Sheets[sheetName])
                    IN  /\ merges' = loaded.mergeInfo
                        /\ IF loaded.threw THEN UNCHANGED <<sheetData, cellStyles>>
                           ELSE /\ sheetData' = loaded.data
                                /\ cellStyles' = loaded.styles
    /\ last' = [op |-> "sheet", name |-> sheetName, sheetData |-> sheetData,
                cellStyles |-> cellStyles, merges |-> merges]
    /\ UNCHANGED <<uploadedFile, heap, workbook, sheets, editHistory, currentInstruction,
                   isLoading, isProcessing, deepseekApiKey, apiConnectionStatus, reads,
                   batches, now, started, limit>>
    /\ toast' = NoToast

\* ------------------------------------------------- instruction translator

ApiKeys == {"", "sk-1"}
Instructions == {"", " ", "raise B2"}

\* `text.trim()` for the texts of the model.
Trim(text) == IF text = " " THEN "" ELSE text

\* The key field of the settings panel.
setDeepseekApiKey(key) ==
    /\ key # deepseekApiKey
    /\ deepseekApiKey' = key
    /\ last' = Idle
    /\ UNCHANGED <<uploadedFile, heap, workbook, sheets, activeSheet, sheetData, cellStyles,
                   merges, editHistory, currentInstruction, isLoading, isProcessing,
                   apiConnectionStatus, reads, batches, now, started, limit>>
    /\ toast' = NoToast

\* testDeepSeekConnection, with the answer the provider gives: the button
\* is disabled while the key is blank.  Nothing else reads isApiTesting, so
\* the call and its answer are one step.
testDeepSeekConnection(ok) ==
    /\ Trim(deepseekApiKey) # ""
    /\ apiConnectionStatus' = IF ok THEN "success" ELSE "error"
    /\ toast' = IF ok THEN Success("connection ok") ELSE Failure("connection failed")
    /\ last' = Idle
    /\ UNCHANGED <<uploadedFile, heap, workbook, sheets, activeSheet, sheetData, cellStyles,
                   merges, editHistory, currentInstruction, isLoading, isProcessing,
                   deepseekApiKey, reads, batches, now, started, limit>>

\* The instruction text area, shown once a workbook is loaded.
setCurrentInstruction(text) ==
    /\ workbook # 0
    /\ text # currentInstruction
    /\ currentInstruction' = text
    /\ last' = Idle
    /\ UNCHANGED <<uploadedFile, heap, workbook, sheets, activeSheet, sheetData, cellStyles,
                   merges, editHistory, isLoading, isProcessing, deepseekApiKey,
                   apiConnectionStatus, reads, batches, now, started, limit>>
    /\ toast' = NoToast

\* ExecuteEnabled, were the button not to look at isProcessing.
ExecuteEnabledUnguarded == workbook # 0 /\ apiConnectionStatus = "success"

\* `disabled={isProcessing || apiConnectionStatus !== 'success'}` of the
\* execute button, inside the card shown once a workbook is loaded.
ExecuteEnabled == workbook # 0 /\ ~(isProcessing \/ apiConnectionStatus # "success")

\* executeInstruction and the part of processWithDeepSeek before its await:
\* the early returns, then the request leaves with the closure of this render.
executeInstruction ==
    /\ ~limit.demo
    /\ ExecuteEnabled
    /\ IF Trim(currentInstruction) = "" THEN
           /\ toast' = Failure("enter an instruction")
           /\ last' = Idle
           /\ UNCHANGED <<currentInstruction, isProcessing, batches, started>>
       ELSE IF Trim(deepseekApiKey) = "" THEN
           /\ toast' = Failure("set the api key")
           /\ currentInstruction' = ""
           /\ last' = Idle
           /\ UNCHANGED <<isProcessing, batches, started>>
       ELSE IF workbook = 0 \/ Len(sheetData) = 0 THEN
           /\ toast' = Failure("load a file first")
           /\ currentInstruction' = ""
           /\ last' = Idle
           /\ UNCHANGED <<isProcessing, batches, started>>
       ELSE
           /\ started.batches < limit.batches
           /\ isProcessing' = TRUE
           /\ batches' = Append(batches, [instruction |-> currentInstruction,
                                          sheetData |-> sheetData,
                                          workbook |-> workbook,
                                          activeSheet |-> activeSheet])
           /\ started' = [started EXCEPT !.batches = @ + 1]
           /\ currentInstruction' = ""
           /\ last' = Idle
           /\ toast' = NoToast
    /\ UNCHANGED <<uploadedFile, heap, workbook, sheets, activeSheet, sheetData, cellStyles,
                   merges, editHistory, isLoading, deepseekApiKey, apiConnectionStatus,
                   reads, now, limit>>

\* What the awaited call can come back with.  A content is the text of the
\* answer, given by what JSON.parse makes of the part between its first
\* "{" and its last "}": nothing (it raises), null, a number, or an object
\* whose updates property is absent, a scalar or an array.
Rejected == [kind |-> "rejected"]
NotOk == [kind |-> "notok"]
NoContent == [kind |-> "nocontent"]
Unparsable == [kind |-> "content", json |-> "invalid"]
JsonNull == [kind |-> "content", json |-> "null"]
JsonNumber == [kind |-> "content", json |-> "number"]
JsonObject(body) == [kind |-> "content", json |-> "object", body |-> body]
WithUpdates(updates) == JsonObject([updates |-> [array |-> updates]])

\* Where processWithDeepSeek goes with an answer: "failed" is the outer
\* catch (lines 394-418 and the read of updates on null), "noupdates" the
\* else branch of line 486, "apply" the branch of line 421.
Outcome(resp) ==
    IF resp.kind # "content" THEN "failed"
    ELSE IF resp.json \in {"invalid", "null"} THEN "failed"
    ELSE IF resp.json = "number" THEN "noupdates"
    ELSE IF "updates" \notin DOMAIN resp.body THEN "noupdates"
    ELSE IF "array" \in DOMAIN resp.body.updates THEN "apply"
    ELSE "noupdates"

HistoryKeep == 9

\* PushHistory, were the slice one entry longer.
PushHistoryEleven(prev, newHistory) ==
    <<newHistory>> \o SubSeq(prev, 1, IF Len(prev) < 10 THEN Len(prev) ELSE 10)

\* `[newHistory, ...prev.slice(0, 9)]`.
PushHistory(prev, newHistory) ==
    <<newHistory>> \o SubSeq(prev, 1, IF Len(prev) < HistoryKeep THEN Len(prev) ELSE HistoryKeep)

\* ProcessingAfter, were the flag cleared at the end of the try block only.
ProcessingAfterThrow(outcome) == outcome = "failed"

\* `finally { setIsProcessing(false) }`: the flag after the call, however
\* the try block was left.
ProcessingAfter(outcome) == FALSE

\* The rest of processWithDeepSeek once the answer of batch i has arrived.
processWithDeepSeek(i, resp) ==
    /\ i \in 1..Len(batches)
    /\ started.answers < limit.answers
    /\ started' = [started EXCEPT !.answers = @ + 1,
                                  !.streak = IF Outcome(resp) = "apply" THEN @ + 1 ELSE @]
    /\ LET b == batches[i]
           wb == heap[b.workbook]
           hasSheet == b.activeSheet \in DOMAIN wb.Sheets
           cells == IF hasSheet THEN wb.Sheets[b.activeSheet].cells ELSE EmptyObj
           done == ApplyUpdates(b.sheetData, cells, resp.body.updates.array, hasSheet)
           seen == [op |-> "batch", resp |-> resp, closure |-> b, cells |-> cells,
                    cellStyles |-> cellStyles, sheetData |-> sheetData, heap |-> heap,
                    editHistory |-> editHistory, inFlight |-> Len(batches)]
       IN  CASE Outcome(resp) = "failed" ->
                 /\ toast' = Failure("edit failed")
                 /\ last' = seen
                 /\ heap' = Collect(heap, workbook, Remove(batches, i))
                 /\ UNCHANGED <<sheetData, editHistory, now>>
             [] Outcome(resp) = "noupdates" ->
                 /\ toast' = Failure("no valid updates")
                 /\ last' = seen
                 /\ heap' = Collect(heap, workbook, Remove(batches, i))
                 /\ UNCHANGED <<sheetData, editHistory, now>>
             [] Outcome(resp) = "apply" ->
                 /\ heap' = Collect(IF hasSheet
                                     THEN [heap EXCEPT ![b.workbook].Sheets[b.activeSheet].cells =
                                                           done.cells]
                                     ELSE heap,
                                     workbook, Remove(batches, i))
                 /\ sheetData' = done.grid
                 /\ editHistory' = PushHistory(editHistory,
                                               [id |-> now, timestamp |-> now,
                                                instruction |-> b.instruction,
                                                changes |-> done.changes,
                                                formatPreserved |-> TRUE])
                 /\ now' = now + 1
                 /\ toast' = Success("edit complete")
                 /\ last' = seen
    /\ isProcessing' = ProcessingAfter(Outcome(resp))
    /\ batches' = Remove(batches, i)
    /\ UNCHANGED <<uploadedFile, workbook, sheets, activeSheet, cellStyles, merges,
                   currentInstruction, isLoading, deepseekApiKey, apiConnectionStatus,
                   reads, limit>>

\* executeInstruction of part_000, the build that simulates the edit: the
\* button of the card shown once a workbook is loaded, never disabled.
executeInstructionDemo ==
    /\ limit.demo
    /\ workbook # 0
    /\ IF Trim(currentInstruction) = "" THEN
           /\ toast' = Failure("enter an instruction")
           /\ UNCHANGED <<editHistory, currentInstruction, now, started>>
       ELSE
           /\ started.answers < limit.answers
           /\ editHistory' = PushHistory(editHistory,
                                         [id |-> now, timestamp |-> now,
                                          instruction |-> currentInstruction,
                                          changes |-> <<[cellRange |-> <<"A", "1", ":", "B", "2">>,
                                                         beforeValue |-> "s:before",
                                                         afterValue |-> "s:after"]>>,
                                          formatPreserved |-> TRUE])
           /\ currentInstruction' = ""
           /\ now' = now + 1
           /\ started' = [started EXCEPT !.answers = @ + 1, !.streak = @ + 1]
           /\ toast' = Success("edit run (demo)")
    /\ last' = Idle
    /\ UNCHANGED <<uploadedFile, heap, workbook, sheets, activeSheet, sheetData, cellStyles,
                   merges, isLoading, isProcessing, deepseekApiKey, apiConnectionStatus,
                   reads, batches, limit>>

\* ------------------------------------------------ ledger, download, reset

\* handleUndo, were it to remove the entry whose control was used.
handleUndoEntry(entry) ==
    /\ entry \in 0..Len(editHistory)
    /\ entry = 0 => Len(editHistory) = 0
    /\ started.undos < limit.undos
    /\ IF Len(editHistory) > 0
       THEN /\ editHistory' = Remove(editHistory, entry)
            /\ toast' = Success("undone")
            /\ started' = [started EXCEPT !.undos = @ + 1, !.streak = 0]
       ELSE /\ toast' = NoToast
            /\ started' = [started EXCEPT !.undos = @ + 1]
            /\ UNCHANGED editHistory
    /\ last' = [op |-> "undo", entry |-> entry, editHistory |-> editHistory,
                sheetData |-> sheetData, heap |-> heap]
    /\ UNCHANGED <<uploadedFile, heap, workbook, sheets, activeSheet, sheetData, cellStyles,
                   merges, currentInstruction, isLoading, isProcessing, deepseekApiKey,
                   apiConnectionStatus, reads, batches, now, limit>>

\* handleUndo, from the undo control of ledger entry number `entry`; the
\* handler takes no argument.  entry = 0 is the handler run with the ledger
\* empty, the case its test of line 551 is there for.
handleUndo(entry) ==
    /\ entry \in 0..Len(editHistory)
    /\ entry = 0 => Len(editHistory) = 0
    /\ started.undos < limit.undos
    /\ IF Len(editHistory) > 0
       THEN /\ editHistory' = Tail(editHistory)
            /\ toast' = Success("undone")
            /\ started' = [started EXCEPT !.undos = @ + 1, !.streak = 0]
       ELSE /\ toast' = NoToast
            /\ started' = [started EXCEPT !.undos = @ + 1]
            /\ UNCHANGED editHistory
    /\ last' = [op |-> "undo", entry |-> entry, editHistory |-> editHistory,
                sheetData |-> sheetData, heap |-> heap]
    /\ UNCHANGED <<uploadedFile, heap, workbook, sheets, activeSheet, sheetData, cellStyles,
                   merges, currentInstruction, isLoading, isProcessing, deepseekApiKey,
                   apiConnectionStatus, reads, batches, now, limit>>

\* handleDownload: the reconciliation of the active sheet, then XLSX.write,
\* which encodes the workbook (written = TRUE) or raises.
handleDownload(written) ==
    /\ workbook # 0
    /\ LET wb == heap[workbook]
           hasSheet == activeSheet \in DOMAIN wb.Sheets
       IN  /\ heap' = IF hasSheet
                      THEN [heap EXCEPT ![workbook].Sheets[activeSheet].cells =
                                            Reconcile(@, sheetData)]
                      ELSE heap
           /\ last' = [op |-> "download", written |-> written, sheetData |-> sheetData,
                       cells |-> IF hasSheet THEN wb.Sheets[activeSheet].cells ELSE EmptyObj,
                       heap |-> heap, inFlight |-> Len(batches)]
    /\ toast' = IF written THEN Success("downloaded") ELSE Failure("download failed")
    /\ UNCHANGED <<uploadedFile, workbook, sheets, activeSheet, sheetData, cellStyles,
                   merges, editHistory, currentInstruction, isLoading, isProcessing,
                   deepseekApiKey, apiConnectionStatus, reads, batches, now, started, limit>>

\* The setters shared by the two buttons that discard the session.
Discard ==
    /\ uploadedFile' = null
    /\ workbook' = 0
    /\ heap' = Collect(heap, 0, batches)
    /\ sheets' = <<>>
    /\ sheetData' = <<>>
    /\ cellStyles' = EmptyObj
    /\ editHistory' = <<>>
    /\ started' = [started EXCEPT !.streak = 0]

\* The "reset all" button, shown once a workbook is loaded.
resetAll ==
    /\ workbook # 0
    /\ Discard
    /\ toast' = Success("reset")
    /\ last' = [op |-> "discard", by |-> "reset"]
    /\ UNCHANGED <<activeSheet, merges, currentInstruction, isLoading, isProcessing,
                   deepseekApiKey, apiConnectionStatus, reads, batches, now, limit>>

\* The "choose another file" button, shown once a file is chosen.
chooseAnotherFile ==
    /\ uploadedFile # null
    /\ Discard
    /\ last' = [op |-> "discard", by |-> "choose"]
    /\ UNCHANGED <<activeSheet, merges, currentInstruction, isLoading, isProcessing,
                   deepseekApiKey, apiConnectionStatus, reads, batches, now, limit>>
    /\ toast' = NoToast

\* ---------------------------------------------------- the specification

UpdB2 == [address |-> Ch("B", "2"), value |-> "n:120"]
UpdA3 == [address |-> Ch("A", "3"), value |-> "n:7"]
UpdClearA2 == [address |-> Ch("A", "2"), formula |-> EmptyStr]

\* The answers the translator gives in the session.
SessionResponses ==
    {Rejected, Unparsable, JsonObject(EmptyObj),
     WithUpdates(<<>>), WithUpdates(<<UpdB2>>), WithUpdates(<<UpdClearA2, UpdA3>>)}

\* Every handler of the component, with the inputs it is given.
Session(files, keys, texts, responses) ==
    \/ \E file \in files : handleFileSelect(file)
    \/ \E file \in files : handleDrop(file)
    \/ \E i \in 1..Len(reads) : readFileWithStyles(i)
    \/ \E k \in 1..Len(sheets) : handleSheetChange(sheets[k])
    \/ \E key \in keys : setDeepseekApiKey(key)
    \/ \E ok \in BOOLEAN : testDeepSeekConnection(ok)
    \/ \E text \in texts : setCurrentInstruction(text)
    \/ executeInstruction
    \/ \E i \in 1..Len(batches), resp \in responses : processWithDeepSeek(i, resp)
    \/ \E entry \in 0..Len(editHistory) : handleUndo(entry)
    \/ \E written \in BOOLEAN : handleDownload(written)
    \/ resetAll
    \/ chooseAnotherFile

Next == Session(FileNames, ApiKeys, Instructions, SessionResponses)

Spec == Init /\ [][Next]_vars

\* ------------------------------------------------- one batch, any answer
\* The component with a workbook loaded, the connection tested and one
\* instruction sent: the answer is any of EditResponses.

MaxUpdates == 2

EditAddresses ==
    {Ch("B", "1"), Ch("A", "2"), Ch("B", "2"), Ch("A", "3"), <<"A">>, <<"$", "B", "$", "2">>}

EditPayloads ==
    {[value |-> "n:120"], [value |-> null], [formula |-> EmptyStr],
     [value |-> "s:Net", formula |-> "s:B2*2"]}

EditUpdates ==
    {[address |-> a] @@ payload : a \in EditAddresses, payload \in EditPayloads}
        \cup {[value |-> "n:120"]}

UpdateLists == UNION {[1..n -> EditUpdates] : n \in 0..MaxUpdates}

EditResponses ==
    {Rejected, NotOk, NoContent, Unparsable, JsonNull, JsonNumber, JsonObject(EmptyObj),
     JsonObject([updates |-> [scalar |-> "s:none"]]),
     JsonObject([updates |-> [scalar |-> EmptyStr]])}
        \cup {WithUpdates(updates) : updates \in UpdateLists}

\* A ledger of n entries whose batches carried an empty update list.
EmptyEdits(n) ==
    [k \in 1..n |-> [id |-> n + 1 - k, timestamp |-> n + 1 - k, instruction |-> "raise B2",
                     changes |-> <<>>, formatPreserved |-> TRUE]]

\* The sheet the instruction was sent from and the sheet active when the
\* answer arrives, per file.
EditCases ==
    {[file |-> "quote.xlsx", sent |-> "S1", active |-> "S1", edits |-> 0],
     [file |-> "quote.xlsx", sent |-> "S1", active |-> "S1", edits |-> HistoryKeep + 1],
     [file |-> "quote.xlsx", sent |-> "S1", active |-> "S2", edits |-> 0],
     [file |-> "quote.xlsx", sent |-> "S2", active |-> "S2", edits |-> 0],
     [file |-> "plan.xls", sent |-> "P1", active |-> "P1", edits |-> 0]}

InitEdit ==
    \E case \in EditCases :
        LET wb == XLSXread(case.file).wb
            shown == LoadSheet(wb.Sheets[case.active])
        IN  /\ uploadedFile = case.file
            /\ heap = <<wb>>
            /\ workbook = 1
            /\ sheets = wb.SheetNames
            /\ activeSheet = case.active
            /\ sheetData = shown.data
            /\ cellStyles = shown.styles
            /\ merges = shown.mergeInfo
            /\ editHistory = EmptyEdits(case.edits)
            /\ currentInstruction = ""
            /\ isLoading = FALSE
            /\ isProcessing = TRUE
            /\ deepseekApiKey = "sk-1"
            /\ apiConnectionStatus = "success"
            /\ toast = NoToast
            /\ reads = <<>>
            /\ batches = <<[instruction |-> "raise B2",
                            sheetData |-> LoadSheet(wb.Sheets[case.sent]).data,
                            workbook |-> 1, activeSheet |-> case.sent]>>
            /\ now = case.edits + 1
            /\ started = [reads |-> 1, batches |-> case.edits + 1, answers |-> case.edits,
                          undos |-> 0, streak |-> case.edits]
            /\ limit = [reads |-> 1, batches |-> case.edits + 1, answers |-> case.edits + 1,
                        undos |-> 0, demo |-> FALSE]
            /\ last = Idle

NextEdit == \E i \in 1..Len(batches), resp \in EditResponses : processWithDeepSeek(i, resp)

SpecEdit == InitEdit /\ [][NextEdit]_vars

\* ------------------------------------------------------------ the ledger
\* The component from its mount, with one file, one key and one instruction
\* text, in either build: instructions are sent and answered MaxEdits
\* times, entries are undone, the session is reset and the file loaded again.

MaxEdits == 11

HistoryResponses == {Unparsable, WithUpdates(<<UpdB2>>)}

InitHistory ==
    /\ Mounted
    /\ \E demo \in BOOLEAN :
           limit = [reads |-> 2, batches |-> MaxEdits, answers |-> MaxEdits,
                    undos |-> MaxUndos, demo |-> demo]

NextHistory ==
    \/ handleFileSelect("quote.xlsx")
    \/ \E i \in 1..Len(reads) : readFileWithStyles(i)
    \/ ~limit.demo /\ setDeepseekApiKey("sk-1")
    \/ ~limit.demo /\ testDeepSeekConnection(TRUE)
    \/ setCurrentInstruction("raise B2")
    \/ executeInstruction
    \/ executeInstructionDemo
    \/ \E i \in 1..Len(batches), resp \in HistoryResponses : processWithDeepSeek(i, resp)
    \/ \E entry \in 0..Len(editHistory) : handleUndo(entry)
    \/ resetAll

SpecHistory == InitHistory /\ [][NextHistory]_vars

\* -------------------------------------------------------- the submissions
\* The component from its mount, with one file, one key and one
\* instruction text: the handlers that the execute button's state depends
\* on run in any order while up to MaxBatches answers arrive.

GuardResponses == {Unparsable, WithUpdates(<<UpdB2>>)}

NextGuard ==
    \/ handleFileSelect("quote.xlsx")
    \/ \E i \in 1..Len(reads) : readFileWithStyles(i)
    \/ setDeepseekApiKey("sk-1")
    \/ \E ok \in BOOLEAN : testDeepSeekConnection(ok)
    \/ \E text \in {"", "raise B2"} : setCurrentInstruction(text)
    \/ executeInstruction
    \/ \E i \in 1..Len(batches), resp \in GuardResponses : processWithDeepSeek(i, resp)
    \/ resetAll
    \/ chooseAnotherFile

SpecGuard == Init /\ [][NextGuard]_vars

\* ------------------------------------------------- while a call is pending
\* The same session with the download button: files are chosen, discarded
\* and loaded and the workbook is downloaded while answers are awaited.

FlightResponses == {Unparsable, WithUpdates(<<UpdB2>>)}

NextFlight ==
    \/ handleFileSelect("quote.xlsx")
    \/ \E i \in 1..Len(reads) : readFileWithStyles(i)
    \/ setDeepseekApiKey("sk-1")
    \/ testDeepSeekConnection(TRUE)
    \/ setCurrentInstruction("raise B2")
    \/ executeInstruction
    \/ \E i \in 1..Len(batches), resp \in FlightResponses : processWithDeepSeek(i, resp)
    \/ handleDownload(TRUE)
    \/ resetAll
    \/ chooseAnotherFile

SpecFlight == Init /\ [][NextFlight]_vars

\* ------------------------------------------------ every call is answered
\* The same session when the translator answers every call, with any of
\* the outcomes: rejected, unparsable, no update list, an empty list, a
\* list whose update is dropped, a list that is applied.

UpdBad == [address |-> <<"A">>, value |-> "n:120"]

LiveResponses ==
    {Rejected, Unparsable, JsonObject(EmptyObj), WithUpdates(<<>>),
     WithUpdates(<<UpdBad>>), WithUpdates(<<UpdB2>>)}

InitLive ==
    /\ Mounted
    /\ limit = [reads |-> MaxReads, batches |-> MaxBatches, answers |-> MaxBatches,
                undos |-> MaxUndos, demo |-> FALSE]

\* The translator call returns or fails.
Answer == \E i \in 1..Len(batches), resp \in LiveResponses : processWithDeepSeek(i, resp)

NextLive ==
    \/ handleFileSelect("quote.xlsx")
    \/ \E i \in 1..Len(reads) : readFileWithStyles(i)
    \/ setDeepseekApiKey("sk-1")
    \/ testDeepSeekConnection(TRUE)
    \/ setCurrentInstruction("raise B2")
    \/ executeInstruction
    \/ Answer
    \/ resetAll

SpecLive == InitLive /\ [][NextLive]_vars /\ WF_vars(Answer)

\* ------------------------------------------------ files, tabs and resets
\* The component from its mount, without the translator: files are chosen
\* and loaded, tabs are selected, the workbook is downloaded and the
\* session is discarded, up to MaxReads times.

LifeFiles == {"quote.xlsx", "torn.xlsx"}

NextLife ==
    \/ \E file \in LifeFiles : handleFileSelect(file)
    \/ \E i \in 1..Len(reads) : readFileWithStyles(i)
    \/ \E k \in 1..Len(sheets) : handleSheetChange(sheets[k])
    \/ handleDownload(TRUE)
    \/ resetAll
    \/ chooseAnotherFile

SpecLife == Init /\ [][NextLife]_vars

\* -------------------------------------------------- load, then download
\* The component with a workbook loaded whose first sheet is any of
\* SheetFamily: tabs are selected and the workbook is downloaded.

MaxCols == 2

\* The persisted entries a file can hold at one address.
CellKinds == {"absent", "zero", "styled", "false", "formula", "stub"}

CellOfKind(kind) ==
    CASE kind = "zero" -> [t |-> TypeN, v |-> "n:0"]
      [] kind = "styled" -> [t |-> TypeN, v |-> "n:100", w |-> "s:100", z |-> "s:General",
                             s |-> BoldYellow]
      [] kind = "false" -> [t |-> TypeB, v |-> "b:false"]
      [] kind = "formula" -> [t |-> TypeN, v |-> "n:7", f |-> "s:B1+7"]
      [] kind = "stub" -> [t |-> TypeZ, s |-> Bordered]

\* `!ref` for the rectangle of row 1 from column `first` to column `final`.
RefOf(first, final) ==
    encode_cell([r |-> 0, c |-> first]) \o <<":">> \o encode_cell([r |-> 0, c |-> final])

\* Worksheets of row 1 with entries in columns A onwards: the declared
\* rectangle is absent, or MaxCols columns wide from column A or from column B.
SheetFamily ==
    {LET filled == {c \in 0..MaxCols : kinds[c] # "absent"}
         cells == [a \in {encode_cell([r |-> 0, c |-> c]) : c \in filled} |->
                      CellOfKind(kinds[decode_cell(a).c])]
     IN  IF first < 0 THEN [cells |-> cells]
         ELSE [ref |-> RefOf(first, first + MaxCols - 1), cells |-> cells] :
     kinds \in [0..MaxCols -> CellKinds], first \in {-1, 0, 1}}

InitSheet ==
    \E worksheet \in SheetFamily :
        LET wb == [SheetNames |-> <<"S1", "S2">>,
                   Sheets |-> [S1 |-> worksheet, S2 |-> QuoteS2]]
            shown == LoadSheet(worksheet)
        IN  /\ uploadedFile = "quote.xlsx"
            /\ heap = <<wb>>
            /\ workbook = 1
            /\ sheets = wb.SheetNames
            /\ activeSheet = "S1"
            /\ sheetData = shown.data
            /\ cellStyles = shown.styles
            /\ merges = shown.mergeInfo
            /\ editHistory = <<>>
            /\ currentInstruction = ""
            /\ isLoading = FALSE
            /\ isProcessing = FALSE
            /\ deepseekApiKey = ""
            /\ apiConnectionStatus = "none"
            /\ toast = Success("file loaded")
            /\ reads = <<>>
            /\ batches = <<>>
            /\ now = 1
            /\ started = [reads |-> 1, batches |-> 0, answers |-> 0, undos |-> 0, streak |-> 0]
            /\ limit = [reads |-> 1, batches |-> 0, answers |-> 0, undos |-> 0, demo |-> FALSE]
            /\ last = Idle

NextSheet ==
    \/ \E k \in 1..Len(sheets) : handleSheetChange(sheets[k])
    \/ \E written \in BOOLEAN : handleDownload(written)

SpecSheet == InitSheet /\ [][NextSheet]_vars

\* ------------------------------------------------------ the style records
\* The component with a workbook loaded whose second sheet holds one cell
\* with any style record of StyleFamily: the tabs are selected.

MaxIndex == 16

\* Colour records: none, rgb as eight or six characters, as the empty
\* string, as a number or a boolean, and palette indices from -1 to MaxIndex.
ColorRecords ==
    {EmptyObj,
     [rgb |-> Str(<<"F", "F", "F", "F", "0", "0", "0", "0">>)],
     [rgb |-> Str(<<"F", "F", "0", "0", "0", "0">>)],
     [rgb |-> Str(<<>>), indexed |-> Num(2)],
     [rgb |-> Num(255)],
     [rgb |-> Num(0)],
     [rgb |-> Bool(TRUE)]}
        \cup {[indexed |-> Num(n)] : n \in -1..MaxIndex}

FontRecords == {[bold |-> Bool(TRUE)], [sz |-> Num(11), name |-> Str(<<"Arial">>)], EmptyObj}

\* Style records: absent, partial and complete sub-records.
StyleFamily ==
    {EmptyObj, [fill |-> EmptyObj], [font |-> EmptyObj], [alignment |-> EmptyObj],
     [border |-> EmptyObj], [border |-> [top |-> EmptyObj, left |-> [style |-> Str(<<"thin">>)]]],
     [alignment |-> [horizontal |-> Str(<<"center">>)]], BoldYellow, Bordered}
        \cup {[fill |-> [fgColor |-> fg]] : fg \in ColorRecords}
        \cup {[fill |-> [bgColor |-> bg]] : bg \in ColorRecords}
        \cup {[fill |-> [fgColor |-> fg, bgColor |-> bg]] :
                  fg \in ColorRecords, bg \in ColorRecords}
        \cup {[font |-> [color |-> color] @@ font] :
                  color \in ColorRecords, font \in FontRecords}

InitStyle ==
    \E style \in StyleFamily :
        LET wb == [SheetNames |-> <<"S1", "S2">>,
                   Sheets |-> [S1 |-> QuoteS1,
                               S2 |-> [cells |-> (Ch("A", "1") :>
                                                     [t |-> TypeN, v |-> "n:7", s |-> style])]]]
            shown == LoadSheet(QuoteS1)
        IN  /\ uploadedFile = "quote.xlsx"
            /\ heap = <<wb>>
            /\ workbook = 1
            /\ sheets = wb.SheetNames
            /\ activeSheet = "S1"
            /\ sheetData = shown.data
            /\ cellStyles = shown.styles
            /\ merges = shown.mergeInfo
            /\ editHistory = <<>>
            /\ currentInstruction = ""
            /\ isLoading = FALSE
            /\ isProcessing = FALSE
            /\ deepseekApiKey = ""
            /\ apiConnectionStatus = "none"
            /\ toast = Success("file loaded")
            /\ reads = <<>>
            /\ batches = <<>>
            /\ now = 1
            /\ started = [reads |-> 1, batches |-> 0, answers |-> 0, undos |-> 0, streak |-> 0]
            /\ limit = [reads |-> 1, batches |-> 0, answers |-> 0, undos |-> 0, demo |-> FALSE]
            /\ last = Idle

NextStyle == \E k \in 1..Len(sheets) : handleSheetChange(sheets[k])

SpecStyle == InitStyle /\ [][NextStyle]_vars

\* ------------------------------------------------- an edit, then download
\* The component with one sheet loaded and one instruction sent: the
\* answer is any list of up to MaxUpdates of SaveUpdates, and the workbook
\* is downloaded before or after it.

\* A sheet declared as B1:C1 with an entry outside the rectangle.
OffsetSheet ==
    [ref |-> <<"B", "1", ":", "C", "1">>,
     cells |-> (Ch("A", "1") :> CellOfKind("formula")) @@
               (Ch("C", "1") :> CellOfKind("styled"))]

SaveSheets == {QuoteS1, QuoteS2, OffsetSheet}

SaveUpdates ==
    {[address |-> a] @@ payload :
        a \in {Ch("A", "1"), Ch("B", "1"), Ch("A", "2"), Ch("B", "2")},
        payload \in {[value |-> "s:Net"], [value |-> "n:0"], [formula |-> "s:B2*2"],
                     [value |-> null, formula |-> EmptyStr]}}

SaveResponses ==
    {WithUpdates(updates) : updates \in UNION {[1..n -> SaveUpdates] : n \in 0..MaxUpdates}}

InitSave ==
    \E worksheet \in SaveSheets :
        LET wb == [SheetNames |-> <<"S1">>, Sheets |-> [S1 |-> worksheet]]
            shown == LoadSheet(worksheet)
        IN  /\ uploadedFile = "quote.xlsx"
            /\ heap = <<wb>>
            /\ workbook = 1
            /\ sheets = wb.SheetNames
            /\ activeSheet = "S1"
            /\ sheetData = shown.data
            /\ cellStyles = shown.styles
            /\ merges = shown.mergeInfo
            /\ editHistory = <<>>
            /\ currentInstruction = ""
            /\ isLoading = FALSE
            /\ isProcessing = TRUE
            /\ deepseekApiKey = "sk-1"
            /\ apiConnectionStatus = "success"
            /\ toast = NoToast
            /\ reads = <<>>
            /\ batches = <<[instruction |-> "raise B2", sheetData |-> shown.data,
                            workbook |-> 1, activeSheet |-> "S1"]>>
            /\ now = 1
            /\ started = [reads |-> 1, batches |-> 1, answers |-> 0, undos |-> 0, streak |-> 0]
            /\ limit = [reads |-> 1, batches |-> 1, answers |-> 1, undos |-> 0, demo |-> FALSE]
            /\ last = Idle

NextSave ==
    \/ \E i \in 1..Len(batches), resp \in SaveResponses : processWithDeepSeek(i, resp)
    \/ handleDownload(TRUE)

SpecSave == InitSave /\ [][NextSave]_vars

\* ------------------------------------------- a tab or a reset under a call
\* The component with quote.xlsx loaded and one instruction sent from
\* sheet S1: tabs are selected, the session is reset and the workbook is
\* downloaded before and after the answer arrives.

StaleResponses == {Unparsable} \cup {WithUpdates(<<update>>) : update \in SaveUpdates}

InitStale ==
    LET shown == LoadSheet(QuoteS1)
    IN  /\ uploadedFile = "quote.xlsx"
        /\ heap = <<QuoteBook>>
        /\ workbook = 1
        /\ sheets = QuoteBook.SheetNames
        /\ activeSheet = "S1"
        /\ sheetData = shown.data
        /\ cellStyles = shown.styles
        /\ merges = shown.mergeInfo
        /\ editHistory = <<>>
        /\ currentInstruction = ""
        /\ isLoading = FALSE
        /\ isProcessing = TRUE
        /\ deepseekApiKey = "sk-1"
        /\ apiConnectionStatus = "success"
        /\ toast = NoToast
        /\ reads = <<>>
        /\ batches = <<[instruction |-> "raise B2", sheetData |-> shown.data,
                        workbook |-> 1, activeSheet |-> "S1"]>>
        /\ now = 1
        /\ started = [reads |-> 1, batches |-> 1, answers |-> 0, undos |-> 0, streak |-> 0]
        /\ limit = [reads |-> 1, batches |-> 1, answers |-> 1, undos |-> 0, demo |-> FALSE]
        /\ last = Idle

NextStale ==
    \/ \E k \in 1..Len(sheets) : handleSheetChange(sheets[k])
    \/ \E i \in 1..Len(batches), resp \in StaleResponses : processWithDeepSeek(i, resp)
    \/ handleDownload(TRUE)
    \/ resetAll

SpecStale == InitStale /\ [][NextStale]_vars

\* ======================================================== the properties
\* A batch is measured against what its call captured when the instruction
\* was submitted: the Grid of last.closure, and the persisted entries of the
\* closure's sheet as they were when the answer arrived (last.cells).

\* The answer carries a list of updates, which the component then applies.
HasUpdateList(resp) ==
    /\ resp.kind = "content"
    /\ resp.json = "object"
    /\ "updates" \in DOMAIN resp.body
    /\ "array" \in DOMAIN resp.body.updates

BatchApplied == last.op = "batch" /\ HasUpdateList(last.resp)

BatchUpdates == last.resp.body.updates.array
GridBefore == last.closure.sheetData
CellsBefore == last.cells
CellsAfter == heap[last.closure.workbook].Sheets[last.closure.activeSheet].cells

\* The update names a cell of the grid.
InGrid(grid, update) ==
    /\ "address" \in DOMAIN update
    /\ LET at == decode_cell(update.address)
       IN  /\ at.r \in 0..(Len(grid) - 1)
           /\ at.c \in 0..(Len(grid[at.r + 1]) - 1)

\* The cells that the updates of a list name.
Targets(updates) ==
    {decode_cell(updates[k].address) :
        k \in {j \in 1..Len(updates) : "address" \in DOMAIN updates[j]}}

\* Two objects agree on property k: both lack it, or both hold the same.
SameField(e1, e2, k) ==
    /\ (k \in DOMAIN e1) = (k \in DOMAIN e2)
    /\ k \in DOMAIN e1 => e1[k] = e2[k]

\* The object stored at key a, or the empty object.
EntryAt(obj, a) == IF a \in DOMAIN obj THEN obj[a] ELSE EmptyObj

SameDimensions(g1, g2) ==
    /\ Len(g1) = Len(g2)
    /\ \A r \in 1..Len(g1) : Len(g1[r]) = Len(g2[r])

\* The ledger is `before` with exactly one entry put in front, the oldest
\* entry leaving when `before` was full.
GainedOneEntry(before, after) ==
    /\ Len(after) >= 1
    /\ Tail(after) = SubSeq(before, 1, IF Len(before) < 10 THEN Len(before) ELSE 9)

\* C1: locality.  After a batch is applied, every Grid cell that no update
\* of the batch names holds the value, formula and type it held, the style
\* map is the same, every persisted entry of the sheet at an address that
\* no update names is the same (none created, none removed), and so are the
\* sheet's other properties and the other sheets.
Locality ==
    BatchApplied =>
        /\ SameDimensions(GridBefore, sheetData)
        /\ \A r \in 1..Len(GridBefore) : \A c \in 1..Len(GridBefore[r]) :
               [r |-> r - 1, c |-> c - 1] \notin Targets(BatchUpdates)
                   => sheetData[r][c] = GridBefore[r][c]
        /\ cellStyles = last.cellStyles
        /\ \A a \in (DOMAIN CellsBefore) \cup (DOMAIN CellsAfter) :
               decode_cell(a) \notin Targets(BatchUpdates)
                   => /\ a \in DOMAIN CellsBefore
                      /\ a \in DOMAIN CellsAfter
                      /\ CellsAfter[a] = CellsBefore[a]
        /\ LET wb == last.closure.workbook
               sheet == last.closure.activeSheet
           IN  /\ heap[wb].SheetNames = last.heap[wb].SheetNames
               /\ DOMAIN heap[wb].Sheets = DOMAIN last.heap[wb].Sheets
               /\ \A other \in DOMAIN heap[wb].Sheets \ {sheet} :
                      heap[wb].Sheets[other] = last.heap[wb].Sheets[other]
               /\ [heap[wb].Sheets[sheet] EXCEPT !.cells = EmptyObj]
                      = [last.heap[wb].Sheets[sheet] EXCEPT !.cells = EmptyObj]

\* A batch of two updates to B1 and B2 of sheet S1 was applied: A2 keeps its
\* formula in the Grid and in the worksheet, B2's entry keeps its style.
LocalityWitness ==
    /\ BatchApplied
    /\ last.closure.activeSheet = "S1"
    /\ Len(BatchUpdates) = 2
    /\ BatchUpdates[1] = [address |-> Ch("B", "1"), value |-> "n:120"]
    /\ BatchUpdates[2] = [address |-> Ch("B", "2"), value |-> null]
    /\ sheetData[1][2].value = "n:120"
    /\ sheetData[2][2].value = null
    /\ sheetData[2][1].formula = "s:B1+7"
    /\ CellsAfter[Ch("A", "2")].f = "s:B1+7"
    /\ CellsAfter[Ch("A", "1")].v = "s:Item"

\* What the claim C3 says of update number k of the applied batch.
ValueOnlyEffect(k) ==
    LET update == BatchUpdates[k]
        at == decode_cell(update.address)
        changes == editHistory[1].changes
        records == {j \in 1..Len(changes) : decode_cell(changes[j].cellRange) = at}
    IN  /\ sheetData[at.r + 1][at.c + 1].value = update.value
        /\ cellStyles = last.cellStyles
        /\ SameField(EntryAt(CellsAfter, update.address),
                     EntryAt(CellsBefore, update.address), "s")
        /\ SameField(EntryAt(CellsAfter, encode_cell(at)),
                     EntryAt(CellsBefore, encode_cell(at)), "s")
        /\ GainedOneEntry(last.editHistory, editHistory)
        /\ Cardinality(records) = 1
        /\ \A j \in records :
               /\ changes[j].beforeValue = GridBefore[at.r + 1][at.c + 1].value
               /\ changes[j].afterValue = update.value

ValueOnly(update) == DOMAIN update = {"address", "value"}

\* C3, as the claim states it: after a batch is applied, for every in-bounds
\* update of it that carries only a value, the target Grid cell holds the
\* update's value, the target's style and the persisted entry's style
\* record are unchanged, and the ledger has gained exactly one entry, whose
\* change list holds one record for the address, from the value before the
\* batch to the update's value.
ValueOnlyUpdateAsClaimed ==
    BatchApplied =>
        \A k \in 1..Len(BatchUpdates) :
            (ValueOnly(BatchUpdates[k]) /\ InGrid(GridBefore, BatchUpdates[k]))
                => ValueOnlyEffect(k)

\* C3, amended: the same, for every in-bounds value-only update whose cell
\* no other update of the batch names.
ValueOnlyUpdate ==
    BatchApplied =>
        \A k \in 1..Len(BatchUpdates) :
            (/\ ValueOnly(BatchUpdates[k])
             /\ InGrid(GridBefore, BatchUpdates[k])
             /\ \A j \in 1..Len(BatchUpdates) :
                    (j # k /\ "address" \in DOMAIN BatchUpdates[j])
                        => decode_cell(BatchUpdates[j].address)
                               # decode_cell(BatchUpdates[k].address))
                => ValueOnlyEffect(k)

\* The scenario of the specification: B2 of S1, bold on yellow and holding
\* 100, is set to 120 by a batch of that one update.
ValueOnlyUpdateWitness ==
    /\ BatchApplied
    /\ last.closure.activeSheet = "S1"
    /\ BatchUpdates = <<[address |-> Ch("B", "2"), value |-> "n:120"]>>
    /\ sheetData[2][2].value = "n:120"
    /\ CellsAfter[Ch("B", "2")].s = BoldYellow
    /\ CellsAfter[Ch("B", "2")].v = "n:120"
    /\ editHistory[1].changes =
           <<[cellRange |-> Ch("B", "2"), beforeValue |-> "n:100", afterValue |-> "n:120"]>>

\* C4: updates are applied independently.  After a batch is applied, no
\* error has escaped it, the Grid and the worksheet are what applying the
\* valid updates alone gives, the ledger entry records every valid update
\* in order, and the Grid has the rows and columns it had.
IndependentUpdates ==
    BatchApplied =>
        LET Valid(update) == InGrid(GridBefore, update)
            valid == SelectSeq(BatchUpdates, Valid)
            alone == ApplyUpdates(GridBefore, CellsBefore, valid, TRUE)
        IN  /\ toast.level = "success"
            /\ ~isProcessing
            /\ sheetData = alone.grid
            /\ CellsAfter = alone.cells
            /\ Len(editHistory[1].changes) = Len(valid)
            /\ \A j \in 1..Len(valid) :
                   /\ editHistory[1].changes[j].cellRange = valid[j].address
                   /\ "value" \in DOMAIN valid[j]
                          => editHistory[1].changes[j].afterValue = valid[j].value
            /\ \A r \in 1..Len(GridBefore) : \A c \in 1..Len(GridBefore[r]) :
                   [r |-> r - 1, c |-> c - 1] \notin Targets(valid)
                       => sheetData[r][c] = GridBefore[r][c]
            /\ SameDimensions(GridBefore, sheetData)

\* A batch to S1 of a malformed address followed by a valid update, and a
\* batch of a row beyond the Grid followed by a valid update: the valid
\* update is applied, the Grid keeps its two rows.
IndependentUpdatesWitness ==
    /\ BatchApplied
    /\ last.closure.activeSheet = "S1"
    /\ Len(BatchUpdates) = 2
    /\ "address" \in DOMAIN BatchUpdates[1]
    /\ BatchUpdates[1].address \in {<<"A">>, Ch("A", "3")}
    /\ BatchUpdates[2] = [address |-> Ch("B", "2"), value |-> "n:120"]
    /\ sheetData[2][2].value = "n:120"
    /\ Len(sheetData) = 2
    /\ Len(editHistory[1].changes) = 1

\* The translator call failed, or its text cannot be parsed as a payload.
TranslationFailed(resp) ==
    \/ resp.kind \in {"rejected", "notok", "nocontent"}
    \/ resp.kind = "content" /\ resp.json \in {"invalid", "null"}

\* C5: when the translator call fails or returns text that cannot be parsed
\* as a structured payload, a failure is surfaced and the call has changed
\* nothing: the Grid, the style map, the Workbook and the ledger are what
\* they were when the answer arrived; the component is no longer processing.
TranslatorFailure ==
    (last.op = "batch" /\ TranslationFailed(last.resp)) =>
        /\ toast.level = "error"
        /\ sheetData = last.sheetData
        /\ cellStyles = last.cellStyles
        /\ heap = last.heap
        /\ editHistory = last.editHistory
        /\ ~isProcessing

\* The translator returned unparsable text while the ledger held ten
\* entries and the Grid the four cells of S1.
TranslatorFailureWitness ==
    /\ last.op = "batch"
    /\ last.resp = Unparsable
    /\ toast.level = "error"
    /\ Len(editHistory) = 10
    /\ sheetData[2][2].value = "n:100"

\* The translator succeeded with zero usable updates: no list, or a list
\* none of whose updates names a cell of the Grid.
ZeroUsableUpdates(resp) ==
    /\ resp.kind = "content"
    /\ resp.json \in {"number", "object"}
    /\ HasUpdateList(resp)
           => \A k \in 1..Len(resp.body.updates.array) :
                  ~InGrid(GridBefore, resp.body.updates.array[k])

\* C6, as the claim states it: when the translator succeeds with zero
\* usable updates the outcome is a no-op notice and not an applied edit:
\* no success notice, no entry appended to the ledger, the Grid as it was.
EmptyResultAsClaimed ==
    (last.op = "batch" /\ ZeroUsableUpdates(last.resp)) =>
        /\ toast.level # "success"
        /\ editHistory = last.editHistory
        /\ sheetData = GridBefore

\* What the component does with an empty update list: the notice of an
\* applied edit, and a ledger entry without changes.
EmptyResultWitness ==
    /\ last.op = "batch"
    /\ last.resp = WithUpdates(<<>>)
    /\ toast.level = "success"
    /\ Len(last.editHistory) = 0
    /\ Len(editHistory) = 1
    /\ editHistory[1].changes = <<>>

\* C7: idempotence of the empty batch.  Applying a batch whose update list
\* is empty leaves every Grid cell, the style map and every persisted
\* entry of the Workbook equal to what it was.
EmptyBatch ==
    (BatchApplied /\ BatchUpdates = <<>>) =>
        /\ sheetData = GridBefore
        /\ cellStyles = last.cellStyles
        /\ CellsAfter = CellsBefore
        /\ heap = last.heap

\* An empty batch was applied to S1: the Grid and the worksheet hold the
\* styled 100 of B2 and the formula of A2.
EmptyBatchWitness ==
    /\ BatchApplied
    /\ BatchUpdates = <<>>
    /\ last.closure.activeSheet = "S1"
    /\ activeSheet = "S1"
    /\ sheetData[2][2].value = "n:100"
    /\ sheetData[2][1].formula = "s:B1+7"
    /\ CellsAfter[Ch("B", "2")].s = BoldYellow

\* The download was of a Grid no edit had touched: the Grid is what the
\* Sheet Loader yields for the active sheet as it was persisted.
LoadedThenDownloaded ==
    /\ last.op = "download"
    /\ activeSheet \in DOMAIN last.heap[workbook].Sheets
    /\ last.sheetData = LoadSheet(last.heap[workbook].Sheets[activeSheet]).data

\* C2, as the claim states it: round trip.  Loading a sheet and running the
\* reconciliation of the download with no edit in between keeps, at every
\* address that had a persisted entry with a value or a formula, the
\* entry and its value, formula and style.
RoundTripAsClaimed ==
    LoadedThenDownloaded =>
        \A a \in DOMAIN last.cells :
            ("v" \in DOMAIN last.cells[a] \/ "f" \in DOMAIN last.cells[a])
                => /\ a \in DOMAIN heap[workbook].Sheets[activeSheet].cells
                   /\ \A k \in {"v", "f", "s"} :
                          SameField(heap[workbook].Sheets[activeSheet].cells[a],
                                    last.cells[a], k)

\* A sheet whose B1 holds the number 0 was loaded and downloaded: the
\* entry of B1 is gone from the worksheet.
RoundTripWitness ==
    /\ LoadedThenDownloaded
    /\ activeSheet = "S1"
    /\ Ch("B", "1") \in DOMAIN last.cells
    /\ last.cells[Ch("B", "1")] = [t |-> TypeN, v |-> "n:0"]
    /\ Ch("B", "1") \notin DOMAIN heap[workbook].Sheets[activeSheet].cells

\* C8: history bound.  The ledger never holds more than 10 entries; after
\* a run of applied edits with no undo or reset in between, its first
\* entries are those edits, newest first, up to 10 of them; and after 10
\* or more it holds exactly the 10 most recently applied.
HistoryBound ==
    /\ Len(editHistory) <= 10
    /\ LET kept == IF started.streak < 10 THEN started.streak ELSE 10
       IN  /\ Len(editHistory) >= kept
           /\ \A j \in 1..kept : /\ editHistory[j].id = now - j
                                  /\ editHistory[j].timestamp = now - j
    /\ started.streak >= 10 => Len(editHistory) = 10

\* Eleven edits were applied in a row: the ledger holds the last ten, the
\* first is gone.
HistoryBoundWitness ==
    /\ started.streak = 11
    /\ Len(editHistory) = 10
    /\ editHistory[1].id = 11
    /\ editHistory[10].id = 2

\* C9: undo.  On a ledger with entries, undo removes the newest entry,
\* whichever entry's control was used, and keeps the others in order; on an
\* empty ledger it changes nothing; the Grid and the Workbook are as they
\* were in both cases.
UndoPopsNewest ==
    last.op = "undo" =>
        /\ IF Len(last.editHistory) > 0
           THEN /\ editHistory = Tail(last.editHistory)
                /\ Len(editHistory) = Len(last.editHistory) - 1
           ELSE /\ editHistory = <<>>
                /\ toast = NoToast
        /\ sheetData = last.sheetData
        /\ heap = last.heap

\* The undo control of the third of four entries was used after an edit had
\* set B2 to 120: the newest entry left, B2 is still 120.
UndoPopsNewestWitness ==
    /\ last.op = "undo"
    /\ last.entry = 3
    /\ Len(last.editHistory) = 4
    /\ editHistory = Tail(last.editHistory)
    /\ editHistory[1].id = last.editHistory[2].id
    /\ workbook # 0
    /\ Len(sheetData) = 2
    /\ ~limit.demo => sheetData[2][2].value = "n:120"

\* C10: re-entrancy guard.  At most one batch is in flight, and while one
\* is the component is processing, so that its execute button is disabled
\* and no further instruction is submitted.
ReentrancyGuard ==
    /\ Len(batches) <= 1
    /\ Len(batches) = 1 => (isProcessing /\ ~ExecuteEnabled)

\* A batch is in flight while a workbook is loaded, the connection is
\* tested and another instruction is typed: only the guard holds it back.
ReentrancyGuardWitness ==
    /\ Len(batches) = 1
    /\ workbook # 0
    /\ Len(sheetData) > 0
    /\ apiConnectionStatus = "success"
    /\ Trim(deepseekApiKey) # ""
    /\ Trim(currentInstruction) # ""
    /\ started.batches < limit.batches

\* C11, as the claim states it: a file load and a download take effect only
\* in states where no batch is in flight.
NoInterleavingAsClaimed ==
    /\ (last.op = "load" /\ last.ok) => last.inFlight = 0
    /\ last.op = "download" => last.inFlight = 0

\* The download button was used while the translator call was awaited: the
\* worksheet was reconciled and written with the call still pending.
NoInterleavingWitness ==
    /\ last.op = "download"
    /\ last.written
    /\ last.inFlight = 1
    /\ Len(batches) = 1
    /\ isProcessing
    /\ toast.level = "success"

\* C13, as the claim states it: in the state right after a successful file
\* load the ledger is empty.
LedgerResetOnLoadAsClaimed ==
    (last.op = "load" /\ last.ok) => editHistory = <<>>

\* A file was loaded after a reset that an in-flight batch outlived: the
\* answer arrived between the reset and the load, and its entry is in the
\* ledger of the newly loaded workbook.
LedgerResetOnLoadWitness ==
    /\ last.op = "load"
    /\ last.ok
    /\ toast = Success("file loaded")
    /\ Len(editHistory) = 1
    /\ editHistory[1].instruction = "raise B2"
    /\ Len(batches) = 0
    /\ started.reads = 2

\* C12, as the claim states it: right after "reset all" or "choose another
\* file" the Workbook is absent and the sheet list, the Grid, the style
\* map, the list of merge regions and the ledger are empty.
DiscardAsClaimed ==
    last.op = "discard" =>
        /\ workbook = 0
        /\ sheets = <<>>
        /\ sheetData = <<>>
        /\ cellStyles = EmptyObj
        /\ merges = <<>>
        /\ editHistory = <<>>

\* The session was reset while sheet S2 was shown: the merge region B2:C2
\* of S2 and the name of the sheet are still in the state.
DiscardWitness ==
    /\ last = [op |-> "discard", by |-> "reset"]
    /\ workbook = 0
    /\ sheetData = <<>>
    /\ merges = QuoteS2.merges
    /\ activeSheet = "S2"

\* C20: selecting a sheet name that the Workbook has no sheet for leaves
\* the Grid, the style map and the merge list as they were and raises no
\* notice.
MissingSheetNoOp ==
    (last.op = "sheet" /\ workbook # 0 /\ last.name \notin DOMAIN heap[workbook].Sheets) =>
        /\ sheetData = last.sheetData
        /\ cellStyles = last.cellStyles
        /\ merges = last.merges
        /\ toast.level # "error"

\* The tab of the sheet that could not be parsed was selected while S1 was
\* shown: the view still holds S1's cells and styles.
MissingSheetNoOpWitness ==
    /\ last.op = "sheet"
    /\ last.name = "T2"
    /\ activeSheet = "T2"
    /\ workbook # 0
    /\ "T2" \notin DOMAIN heap[workbook].Sheets
    /\ sheetData = LoadSheet(QuoteS1).data
    /\ Ch("B", "2") \in DOMAIN cellStyles

\* The address lies outside the rectangle of a decoded range.
OutsideRange(range, a) ==
    LET at == decode_cell(a)
    IN  ~(/\ at.r >= range.s.r /\ at.r <= range.e.r
          /\ at.c >= range.s.c /\ at.c <= range.e.c)

\* C14, as the claim states it: the reconciliation of the download leaves
\* every persisted entry whose address lies outside the rectangle the Grid
\* was loaded from as it was (none created, none removed, none changed),
\* wherever the rectangle starts, and leaves the other sheets as they were.
OutsideUntouchedAsClaimed ==
    LoadedThenDownloaded =>
        LET range == SheetRange(last.heap[workbook].Sheets[activeSheet])
            after == heap[workbook].Sheets[activeSheet].cells
        IN  /\ \A a \in (DOMAIN last.cells) \cup (DOMAIN after) :
                   OutsideRange(range, a)
                       => /\ a \in DOMAIN last.cells
                          /\ a \in DOMAIN after
                          /\ after[a] = last.cells[a]
            /\ \A other \in DOMAIN heap[workbook].Sheets \ {activeSheet} :
                   heap[workbook].Sheets[other] = last.heap[workbook].Sheets[other]

\* A sheet declared as B1:C1, with a formula in B1 and nothing in A1, was
\* loaded and downloaded: the worksheet now has an entry at A1, outside
\* the rectangle, holding B1's value and formula.
OutsideUntouchedWitness ==
    /\ LoadedThenDownloaded
    /\ last.written
    /\ activeSheet = "S1"
    /\ "ref" \in DOMAIN heap[workbook].Sheets.S1
    /\ heap[workbook].Sheets.S1.ref = <<"B", "1", ":", "C", "1">>
    /\ last.cells = (Ch("B", "1") :> CellOfKind("formula"))
    /\ Ch("A", "1") \in DOMAIN heap[workbook].Sheets.S1.cells
    /\ heap[workbook].Sheets.S1.cells[Ch("A", "1")].v = "n:7"
    /\ heap[workbook].Sheets.S1.cells[Ch("A", "1")].f = "s:B1+7"

\* C15, as the claim states it: style decoding is total.  For every style
\* record of a sheet decoding raises nothing, so that the Sheet Loader
\* completes: after a sheet is selected the Grid and the style map are
\* those of that sheet.
DecodeTotalAsClaimed ==
    (last.op = "sheet" /\ workbook # 0 /\ last.name \in DOMAIN heap[workbook].Sheets) =>
        LET worksheet == heap[workbook].Sheets[last.name]
        IN  /\ \A a \in DOMAIN worksheet.cells : ~LoadCellStyle(worksheet, a).threw
            /\ sheetData = LoadSheet(worksheet).data
            /\ cellStyles = LoadSheet(worksheet).styles

\* Sheet S2, whose A1 has a foreground colour with the number 255 as rgb,
\* was selected: decoding raised, the tab is S2 and the Grid is still S1's.
DecodeTotalWitness ==
    /\ last.op = "sheet"
    /\ last.name = "S2"
    /\ activeSheet = "S2"
    /\ heap[workbook].Sheets.S2.cells[Ch("A", "1")].s = [fill |-> [fgColor |-> [rgb |-> Num(255)]]]
    /\ DecodeStyle(heap[workbook].Sheets.S2.cells[Ch("A", "1")].s).threw
    /\ sheetData = LoadSheet(QuoteS1).data
    /\ Len(sheetData) = 2

\* The in-bounds updates of the applied batch that name the cell `at` and
\* carry the field.
Carrying(at, field) ==
    {k \in 1..Len(BatchUpdates) :
        /\ InGrid(GridBefore, BatchUpdates[k])
        /\ decode_cell(BatchUpdates[k].address) = at
        /\ field \in DOMAIN BatchUpdates[k]}

Newest(ks) == CHOOSE k \in ks : \A j \in ks : j <= k

\* C16: the fields an update carries.  After a batch is applied, a Grid
\* cell's value is the value of the last in-bounds update that names the
\* cell and carries a value field (null and the empty string included),
\* and the value it had when no such update exists; likewise its formula
\* with the formula field; its type is the one it had.
FieldsCarried ==
    BatchApplied =>
        \A r \in 1..Len(GridBefore) : \A c \in 1..Len(GridBefore[r]) :
            /\ \A field \in {"value", "formula"} :
                   LET ks == Carrying([r |-> r - 1, c |-> c - 1], field)
                   IN  IF ks = {}
                       THEN SameField(sheetData[r][c], GridBefore[r][c], field)
                       ELSE /\ field \in DOMAIN sheetData[r][c]
                            /\ sheetData[r][c][field] = BatchUpdates[Newest(ks)][field]
            /\ SameField(sheetData[r][c], GridBefore[r][c], "type")

\* A batch to S1 cleared the formula of A2 and set B2 to null: A2 keeps its
\* value 7 and has the empty formula, B2 holds null and has no formula.
FieldsCarriedWitness ==
    /\ BatchApplied
    /\ last.closure.activeSheet = "S1"
    /\ BatchUpdates = <<[address |-> Ch("A", "2"), formula |-> EmptyStr],
                        [address |-> Ch("B", "2"), value |-> null]>>
    /\ sheetData[2][1].value = "n:7"
    /\ sheetData[2][1].formula = EmptyStr
    /\ sheetData[2][2].value = null
    /\ sheetData[2][2].formula = undefined

\* The persisted entry agrees with the Grid cell: the same value, or no
\* value where the cell's is empty; the same formula, or no formula where
\* the cell has none.
Mirrors(entry, cell) ==
    /\ IF isEmptyValue(cell) THEN Get(entry, "v") \in {undefined, null, EmptyStr}
       ELSE Get(entry, "v") = cell.value
    /\ IF hasFormula(cell) THEN Get(entry, "f") = cell.formula
       ELSE ~Truthy(Get(entry, "f"))

\* C17, as the claim states it: after a batch is applied, at the address of
\* every applied update the sheet has a persisted entry whose value and
\* formula are those of the Grid cell at that address; an update that
\* clears the formula leaves no formula on the entry.
MirroredAsClaimed ==
    (BatchApplied /\ last.closure.activeSheet \in DOMAIN heap[last.closure.workbook].Sheets) =>
        \A k \in 1..Len(BatchUpdates) :
            InGrid(GridBefore, BatchUpdates[k]) =>
                LET at == decode_cell(BatchUpdates[k].address)
                    a == BatchUpdates[k].address
                IN  /\ a \in DOMAIN CellsAfter
                    /\ Mirrors(CellsAfter[a], sheetData[at.r + 1][at.c + 1])

\* A batch to S1 cleared the formula of A2: the Grid cell has the empty
\* formula, the persisted entry still has B1+7.
MirroredWitness ==
    /\ BatchApplied
    /\ last.closure.activeSheet = "S1"
    /\ activeSheet = "S1"
    /\ BatchUpdates = <<[address |-> Ch("A", "2"), formula |-> EmptyStr]>>
    /\ sheetData[2][1].formula = EmptyStr
    /\ CellsAfter[Ch("A", "2")].f = "s:B1+7"
    /\ CellsBefore[Ch("A", "2")].f = "s:B1+7"

\* The download reconciled the sheet that is shown.
Downloaded == last.op = "download" /\ activeSheet \in DOMAIN last.heap[workbook].Sheets

\* The persisted entries of the shown sheet after the download.
Saved == heap[workbook].Sheets[activeSheet].cells

\* C18: the serializer's empty branch.  After a download, for every Grid
\* cell whose value is empty and that has no formula: where the sheet had
\* no entry it has none; where it had one without a formula the entry is
\* gone; where it had one with a formula the entry is what it was without
\* its value, display text and format cache.
EmptyBranch ==
    Downloaded =>
        \A r \in 1..Len(last.sheetData) : \A c \in 1..Len(last.sheetData[r]) :
            LET cell == last.sheetData[r][c]
                a == encode_cell([r |-> r - 1, c |-> c - 1])
            IN  (isEmptyValue(cell) /\ ~hasFormula(cell)) =>
                    IF a \notin DOMAIN last.cells THEN a \notin DOMAIN Saved
                    ELSE IF ~Truthy(Get(last.cells[a], "f")) THEN a \notin DOMAIN Saved
                    ELSE /\ a \in DOMAIN Saved
                         /\ DOMAIN Saved[a] = DOMAIN last.cells[a] \ {"v", "w", "z"}
                         /\ \A k \in DOMAIN Saved[a] : Saved[a][k] = last.cells[a][k]

\* After an edit had set A2 of S1 to null and cleared its formula in the
\* Grid, the download kept the entry of A2 as a remnant with the formula
\* and without a value, removed the entry of B1 and created none.
EmptyBranchWitness ==
    /\ Downloaded
    /\ Len(batches) = 0
    /\ Len(sheetData) = 2
    /\ sheetData[2][1].value = null
    /\ sheetData[2][1].formula = EmptyStr
    /\ last.cells[Ch("A", "2")] = [t |-> TypeN, v |-> null, f |-> "s:B1+7"]
    /\ Saved[Ch("A", "2")] = [t |-> TypeN, f |-> "s:B1+7"]
    /\ Ch("B", "1") \in DOMAIN last.cells
    /\ Ch("B", "1") \notin DOMAIN Saved

RawStyle == heap[workbook].Sheets.S2.cells[Ch("A", "1")].s
Decoded == EntryAt(cellStyles, Ch("A", "1"))

StyleLoaded ==
    /\ last.op = "sheet"
    /\ last.name = "S2"
    /\ activeSheet = "S2"
    /\ ~DecodeStyle(RawStyle).threw

\* A colour lookup that gave a colour.
Yields(found) == found.set /\ TruthyB(found.val)

\* C21, as the claim states it: the background is the fill foreground
\* colour when that yields a colour; otherwise it is the fill background
\* colour resolved by the same rules (rgb, or an index into the same
\* palette); otherwise there is none.
BackgroundFallbackAsClaimed ==
    StyleLoaded =>
        LET fg == FillFg(RawStyle)
            bg == IF "bgColor" \in DOMAIN Sub(RawStyle, "fill")
                  THEN ResolveColor(RawStyle.fill.bgColor, fillIndexedColors) ELSE NoColor
        IN  IF Yields(fg) THEN GetB(Decoded, "backgroundColor") = fg.val
            ELSE IF Yields(bg) THEN GetB(Decoded, "backgroundColor") = bg.val
            ELSE ~TruthyB(GetB(Decoded, "backgroundColor"))

\* A fill with no foreground and the palette index 3 as background was
\* decoded: the cell has no background, where the foreground rule gives
\* the palette's fourth colour.
BackgroundFallbackWitness ==
    /\ StyleLoaded
    /\ RawStyle = [fill |-> [bgColor |-> [indexed |-> Num(3)]]]
    /\ "backgroundColor" \notin DOMAIN Decoded
    /\ ResolveColor(RawStyle.fill.bgColor, fillIndexedColors).val = Hex6("0", "F", "0")

\* C22, as the claim states it: the font colour of a colour record is the
\* background which the same record gives as a fill foreground colour,
\* and there is none exactly when that gives none.
FontColorAsClaimed ==
    (StyleLoaded /\ "color" \in DOMAIN Sub(RawStyle, "font")) =>
        LET asFill == ResolveColor(RawStyle.font.color, fillIndexedColors)
        IN  /\ ("color" \in DOMAIN Decoded) = asFill.set
            /\ asFill.set => Decoded.color = asFill.val

\* A font colour given as palette index 9 was decoded: the cell has no
\* colour, where the fill foreground rule gives white.
FontColorWitness ==
    /\ StyleLoaded
    /\ RawStyle = [font |-> [color |-> [indexed |-> Num(9)]]]
    /\ "color" \notin DOMAIN Decoded
    /\ ResolveColor(RawStyle.font.color, fillIndexedColors).val = Hex6("F", "F", "F")

\* '#' and the last six characters of a colour hex.
RgbPart(chars) == Str(<<"#">> \o SubSeq(chars, Len(chars) - 5, Len(chars)))

\* The record gives its colour as a hex of six or of eight characters.
IsHex(color) ==
    /\ "rgb" \in DOMAIN color
    /\ color.rgb.k = "str"
    /\ Len(color.rgb.chars) \in {6, 8}

\* C23, as the claim states it: a colour given as a hex is decoded to '#'
\* and its six RGB digits, the alpha prefix of an eight-character hex
\* dropped and a six-character hex kept whole.
HexKeptAsClaimed ==
    StyleLoaded =>
        /\ ("fgColor" \in DOMAIN Sub(RawStyle, "fill") /\ IsHex(RawStyle.fill.fgColor))
               => GetB(Decoded, "backgroundColor") = RgbPart(RawStyle.fill.fgColor.rgb.chars)
        /\ ("color" \in DOMAIN Sub(RawStyle, "font") /\ IsHex(RawStyle.font.color))
               => GetB(Decoded, "color") = RgbPart(RawStyle.font.color.rgb.chars)

\* The foreground FF0000, a hex without alpha prefix, was decoded: the
\* background is '#0000'.
HexKeptWitness ==
    /\ StyleLoaded
    /\ RawStyle = [fill |-> [fgColor |-> [rgb |-> Str(<<"F", "F", "0", "0", "0", "0">>)]]]
    /\ Decoded.backgroundColor = Str(<<"#", "0", "0", "0", "0">>)

\* C24: every submitted instruction leaves the processing state.  When
\* the translator call returns or fails, whatever it returns, the
\* processing flag is false again with no call pending, so that the
\* execute button is no longer held back by it.
LeavesProcessing == isProcessing ~> (~isProcessing /\ Len(batches) = 0)

\* Two instructions were submitted one after the other and answered, one
\* applied and one not: the component is not processing and the button is
\* enabled.
LeavesProcessingWitness ==
    /\ last.op = "batch"
    /\ started.answers = 2
    /\ started.streak = 1
    /\ ~isProcessing
    /\ ExecuteEnabled

\* C25, as the claim states it: a batch computed from one sheet's Grid
\* does not replace the Grid of another.  When a batch is applied after
\* the session was reset the Grid stays empty, and when it is applied
\* while another sheet than the one it was sent from is active the Grid is
\* what it was, the data of the active sheet.
StaleBatchAsClaimed ==
    BatchApplied =>
        IF workbook = 0 THEN sheetData = <<>>
        ELSE activeSheet # last.closure.activeSheet => sheetData = last.sheetData

\* An instruction was sent from S1, the tab S2 was selected, the answer
\* arrived and the workbook was downloaded: the Grid is S1's with the edit,
\* and sheet S2 of the workbook has S1's cells A1 and A2.
StaleBatchWitness ==
    /\ last.op = "download"
    /\ activeSheet = "S2"
    /\ Len(batches) = 0
    /\ Len(editHistory) = 1
    /\ Len(sheetData) = 2
    /\ sheetData[1][1].value = "s:Item"
    /\ Ch("A", "1") \notin DOMAIN last.cells
    /\ heap[workbook].Sheets.S2.cells[Ch("A", "1")] = [t |-> TypeS, v |-> "s:Item"]
    /\ heap[workbook].Sheets.S2.cells[Ch("A", "2")].f = "s:B1+7"

\* A grid of the shape of the Grid in which only the cell at row r, column
\* c has a value.
ProbeGrid(r, c) ==
    [i \in 1..Len(sheetData) |->
        [j \in 1..Len(sheetData[i]) |->
            IF i = r /\ j = c THEN [value |-> "n:1"] ELSE [value |-> EmptyStr]]]

\* C26, as the claim states it: address correspondence.  For the sheet that
\* is shown, wherever its rectangle starts, and for every Grid cell (r, c):
\* the snapshot names the cell by the address the loader read it from, an
\* update at that address is looked up at (r, c), and the serializer
\* writes the cell at that address.
AddressCorrespondenceAsClaimed ==
    (workbook # 0 /\ activeSheet \in DOMAIN heap[workbook].Sheets) =>
        LET range == SheetRange(heap[workbook].Sheets[activeSheet])
        IN  \A r \in 1..Len(sheetData) : \A c \in 1..Len(sheetData[r]) :
                LET origin == LoadedFrom(range, r - 1, c - 1)
                IN  /\ \A k \in 1..Len(currentData(ProbeGrid(r, c))) :
                           currentData(ProbeGrid(r, c))[k].address = origin
                    /\ decode_cell(origin) = [r |-> r - 1, c |-> c - 1]
                    /\ DOMAIN Reconcile(EmptyObj, ProbeGrid(r, c)) = {origin}

\* On the sheet declared as B1:C1 the batch with the one update of B1 to
\* "Net" was applied: the Grid cell read from B1 is as it was, and the Grid
\* cell read from C1 now holds "Net".
AddressCorrespondenceWitness ==
    /\ BatchApplied
    /\ last.resp = WithUpdates(<<[address |-> Ch("B", "1"), value |-> "s:Net"]>>)
    /\ Len(editHistory) = 1
    /\ SheetRange(heap[workbook].Sheets.S1) = decode_range(<<"B", "1", ":", "C", "1">>)
    /\ LoadedFrom(SheetRange(heap[workbook].Sheets.S1), 0, 1) = Ch("C", "1")
    /\ last.sheetData[1][2] = LoadCellData(OffsetSheet, Ch("C", "1"))
    /\ sheetData[1][1] = last.sheetData[1][1]
    /\ sheetData[1][2].value = "s:Net"

\* The values of the model that are text with at least one character.
Texts == {"s:Item", "s:Net", "s:Note"}

\* C27, as the claim states it: type consistency.  After a download every
\* persisted entry of the sheet that has a value carries the type tag of
\* the kind of that value: the numeric tag for a number, the string tag
\* for text.
TypeConsistentAsClaimed ==
    Downloaded =>
        \A a \in DOMAIN Saved :
            "v" \in DOMAIN Saved[a] =>
                /\ IsNumber(Saved[a].v) => Get(Saved[a], "t") = TypeN
                /\ Saved[a].v \in Texts => Get(Saved[a], "t") = TypeS

\* The text cell A1 and the numeric cell B2 of the quote were overwritten
\* with the number 0 and the text "Net", and the workbook was downloaded:
\* A1 holds 0 under the string tag, B2 holds "Net" under the numeric tag.
TypeConsistentWitness ==
    /\ Downloaded
    /\ last.written
    /\ Len(editHistory) = 1
    /\ Len(editHistory[1].changes) = 2
    /\ Saved[Ch("A", "1")] = [t |-> TypeS, v |-> "n:0"]
    /\ Saved[Ch("B", "2")].v = "s:Net"
    /\ Saved[Ch("B", "2")].t = TypeN

\* Two grid cells show the same: the same value, or both no value, and the
\* same formula, or both none.
SameContent(a, b) ==
    /\ \/ Get(a, "value") = Get(b, "value")
       \/ isEmptyValue(a) /\ isEmptyValue(b)
    /\ \/ Get(a, "formula") = Get(b, "formula")
       \/ ~hasFormula(a) /\ ~hasFormula(b)

\* The Grid the loader derives from the shown sheet as the workbook holds it.
Rederived == LoadSheet(heap[workbook].Sheets[activeSheet]).data

\* C28, as the claim states it: applied edits are durable across a sheet
\* switch.  Right after a batch is applied, the Grid that loading the same
\* sheet from the workbook yields has, in every cell, the value and the
\* formula of the Grid.
DurableAsClaimed ==
    (BatchApplied /\ workbook # 0 /\ activeSheet \in DOMAIN heap[workbook].Sheets) =>
        /\ Len(Rederived) = Len(sheetData)
        /\ \A r \in 1..Len(sheetData) :
               /\ Len(Rederived[r]) = Len(sheetData[r])
               /\ \A c \in 1..Len(sheetData[r]) : SameContent(Rederived[r][c], sheetData[r][c])

\* On the quote the batch that sets B2 to 0 and clears the value and the
\* formula of A2 was applied: the Grid shows 0 in B2 and nothing in A2,
\* and the sheet loaded again shows nothing in B2 and the formula in A2.
DurableWitness ==
    /\ BatchApplied
    /\ Len(editHistory) = 1
    /\ Len(editHistory[1].changes) = 2
    /\ last.sheetData = LoadSheet(QuoteS1).data
    /\ sheetData[2][2].value = "n:0"
    /\ Rederived[2][2].value = EmptyStr
    /\ ~hasFormula(sheetData[2][1])
    /\ isEmptyValue(sheetData[2][1])
    /\ Rederived[2][1].formula = "s:B1+7"

\* C29: serialization is idempotent on the workbook.  After a download,
\* reconciling the same Grid once more leaves every persisted entry of the
\* sheet as the download left it, and the download left the Grid as it was.
SerializeIdempotent ==
    Downloaded =>
        /\ Reconcile(Saved, sheetData) = Saved
        /\ sheetData = last.sheetData

\* The value and the formula of A2 of the quote were cleared in the Grid
\* and the workbook was downloaded: the download took the value off the
\* entry of A2 and kept the entry for its formula, as a second
\* reconciliation does again.
SerializeIdempotentWitness ==
    /\ Downloaded
    /\ last.written
    /\ Len(editHistory) = 1
    /\ Len(sheetData) = 2
    /\ isEmptyValue(sheetData[2][1])
    /\ ~hasFormula(sheetData[2][1])
    /\ Ch("A", "2") \in DOMAIN last.cells
    /\ Ch("A", "2") \in DOMAIN Saved
    /\ "v" \in DOMAIN last.cells[Ch("A", "2")]
    /\ Saved[Ch("A", "2")] = [t |-> TypeN, f |-> "s:B1+7"]
    /\ Saved # last.cells

\* The updates of the applied batch that name a cell of the grid, in list
\* order.
AppliedUpdates == SelectSeq(BatchUpdates, LAMBDA update : InGrid(GridBefore, update))

\* The records of the newest ledger entry before or after record j that
\* are for the same cell as record j.
SameCell(j, among) ==
    {i \in among : decode_cell(editHistory[1].changes[i].cellRange)
                      = decode_cell(editHistory[1].changes[j].cellRange)}

Highest(ks) == CHOOSE k \in ks : \A other \in ks : other <= k

\* C30: the change records chain through a batch in update order.  After a
\* batch is applied the change list of the new ledger entry has one record
\* per applied update, in list order and under the update's address, the
\* dropped updates having none; and for every cell, the first record's
\* beforeValue is the value the Grid held before the batch, every later
\* record's beforeValue is the afterValue of the record before it for that
\* cell, and the last record's afterValue is the value the Grid holds.
RecordsChain ==
    BatchApplied =>
        LET changes == editHistory[1].changes
        IN  /\ Len(changes) = Len(AppliedUpdates)
            /\ \A j \in 1..Len(changes) :
                   LET at == decode_cell(changes[j].cellRange)
                       earlier == SameCell(j, 1..(j - 1))
                       later == SameCell(j, (j + 1)..Len(changes))
                   IN  /\ changes[j].cellRange = AppliedUpdates[j].address
                       /\ "value" \in DOMAIN AppliedUpdates[j]
                              => changes[j].afterValue = AppliedUpdates[j].value
                       /\ changes[j].beforeValue =
                              IF earlier = {}
                              THEN Get(GridBefore[at.r + 1][at.c + 1], "value")
                              ELSE changes[Highest(earlier)].afterValue
                       /\ later = {}
                              => changes[j].afterValue = Get(sheetData[at.r + 1][at.c + 1], "value")

\* A batch of two updates was applied to the quote, the first setting B2
\* to 120 and the second clearing the formula of the same cell, written
\* $B$2: the ledger has the two records 100 to 120 and 120 to 120, and the
\* Grid holds 120.
RecordsChainWitness ==
    /\ BatchApplied
    /\ last.closure.activeSheet = "S1"
    /\ BatchUpdates = <<[address |-> Ch("B", "2"), value |-> "n:120"],
                        [address |-> <<"$", "B", "$", "2">>, formula |-> EmptyStr]>>
    /\ editHistory[1].changes =
           <<[cellRange |-> Ch("B", "2"), beforeValue |-> "n:100", afterValue |-> "n:120"],
             [cellRange |-> <<"$", "B", "$", "2">>, beforeValue |-> "n:120",
              afterValue |-> "n:120"]>>
    /\ sheetData[2][2].value = "n:120"

====
